---- MODULE Spec2Model ----
(***************************************************************************)
(* Model of the procman deputy (src/src/deputy/procman_deputy.cpp) and of  *)
(* the process manager it drives (src/src/deputy/procman.cpp).             *)
(*                                                                         *)
(* A command is keyed by the sheriff_id that find_local_cmd and            *)
(* procmd_orders_find_cmd compare.  The deputy's table commands_ and the   *)
(* process manager's list are separate variables: the deputy never erases  *)
(* a key from commands_, so a key whose DeputyCommand was freed stays in   *)
(* the table (set freed).  A handler that dereferences a freed entry has   *)
(* undefined behaviour: the model resolves it either as a crash of the     *)
(* deputy or as a deputy that goes on in an undetermined way; both end the *)
(* modelled behaviour.                                                     *)
(*                                                                         *)
(* Time is a clock of whole seconds (now); timestamps are clock values     *)
(* and 0 is the code's "unset" marker.                                     *)
(***************************************************************************)
EXTENDS Integers, Sequences, FiniteSets, TLC

\* ---------------------------------------------------------------- constants
MIN_RESPAWN_DELAY_MS == 10
MAX_RESPAWN_DELAY_MS == 1000
RESPAWN_BACKOFF_RATE == 2
PROCMAN_MAX_MESSAGE_AGE_SEC == 60
MIN_QUIT_TIME_ALLOWED == 1
SIGINT == 2
SIGKILL == 9
SIGTERM == 15
SIGCHLD == 17
EXEC_FAILED_STATUS == 65280
INT_BITS == 32

\* ---------------------------------------------------------------- bounds
MaxNow == 2
MaxOldTimers == 1
MaxSigPipe == 2
MaxRunId == 1
MaxStarts == 3
MaxRespawnStarts == 8

SheriffIds == {1, 2}
RunIds == 0..MaxRunId
NoCmd == 0
Times == 0..MaxNow

\* (int) of the epoch time in ms: the first start of a command computes
\* timestamp_now() - 0, which does not fit an int; the conversion keeps the low
\* 32 bits, so any int value can result depending on the wall clock.
FirstStartMs == {-2000000000, 1000, 33000}

Min(a, b) == IF a < b THEN a ELSE b
Max(a, b) == IF a > b THEN a ELSE b

\* wait-status macros
WIFSIGNALED(status) == (status % 128) \notin {0, 127}
WTERMSIG(status) == status % 128

VARIABLES
    commands_,     \* keys of ProcmanDeputy::commands_ (never erased)
    mi,            \* DeputyCommand per key
    freed,         \* keys of commands_ whose DeputyCommand was freed
    pm_commands,   \* commands owned by the process manager
    cmd,           \* procman command record per key
    timers,        \* pending glib respawn sources per key
    exiting,       \* ProcmanDeputy::exiting
    quit_timers,   \* deadlines of pending on_quit_timeout sources
    mainloop,      \* "run" | "quit" | "crashed" | "undefined"
    child,         \* OS child process per key: "none" | "alive" | "zombie"
    wstatus,       \* wait status a zombie will report
    delivered,     \* signals delivered to the live child
    fd_open,       \* the master pty of the key's child is an open descriptor
    pty,           \* the bytes the key's child wrote to its pty that were not read
    prep,          \* an exec string and what argument preparation made of it
    procs,         \* the processes the children have forked, per pid
    net,           \* the like-named deputies, their messages in flight, the clock in ms
    loop,          \* the EventLoop of lcm_util.hpp
    sigpipe,       \* signal numbers written to the self-pipe, not yet handled
    now,           \* clock, seconds
    nstarts,       \* start attempts made so far
    ev             \* what the last handler did (observation only)

vars == <<commands_, mi, freed, pm_commands, cmd, timers, exiting, quit_timers,
          mainloop, child, wstatus, delivered, fd_open, pty, prep, procs, net,
          loop, sigpipe, now, nstarts, ev>>

\* ---------------------------------------------------------------- records
\* new DeputyCommand(): value-initialised, every field zero
ZeroMi ==
    [actual_runid |-> 0, should_be_stopped |-> FALSE, auto_respawn |-> FALSE,
     respawn_timeout_id |-> 0, last_start_time |-> 0,
     respawn_backoff |-> 0, stop_signal |-> 0, stop_time_allowed |-> 0,
     num_kills_sent |-> 0, first_kill_time |-> 0, remove_requested |-> FALSE,
     stdout_ioc |-> FALSE, group |-> 0, id |-> 0]

\* ProcmanCommand constructor
NewCmd(exec_str, cmd_id) ==
    [exec_str |-> exec_str, cmd_id |-> cmd_id, pid |-> 0, stdin_fd |-> -1,
     stdout_fd |-> -1, exit_status |-> 0, descendants_to_kill_ |-> {}]

NoTimers == [cur |-> FALSE, old |-> 0]

\* no exec string has been handed to argument preparation
NoPrep ==
    [stage |-> "none", exec_str |-> <<>>, argv |-> <<>>, environment |-> {},
     ub |-> FALSE, output |-> <<>>]

\* the log of one handler run
NoEv ==
    [kind |-> "init", arg |-> 0, info |-> 0, out |-> {}, nout |-> 0, sent |-> {},
     sent_desc |-> {}, attempts |-> {}, forked |-> {}, created |-> {}, destroyed |-> {},
     reaped |-> {}, changed |-> FALSE, ub |-> FALSE, threw |-> FALSE,
     listed |-> {}]

\* the pids the children's own forks can get, and a pid that is not in use.
\* A process of /proc/<pid>/stat: the number of words of its name, its
\* parent, process group and session.
DescPids == {201, 202}
InitPid == 1
NoProc == [alive |-> FALSE, comm_words |-> 1, ppid |-> 0, pgrp |-> 0, session |-> 0]

\* the kernel hands the children of the process that ended to init
Reparent(ps, pid) ==
    [p \in DescPids |-> IF ps[p].alive /\ ps[p].ppid = pid
                        THEN [ps[p] EXCEPT !.ppid = InitPid] ELSE ps[p]]

\* the pid of the child forked for key c, and its master pty descriptor
PidOf(c) == 100 + c
MasterFd(c) == 10 + c
JunkFd == 77

\* The deputy and process-manager state a handler works on.
Cur ==
    [commands_ |-> commands_, mi |-> mi, freed |-> freed,
     pm_commands |-> pm_commands, cmd |-> cmd, timers |-> timers,
     exiting |-> exiting, quit_timers |-> quit_timers, mainloop |-> mainloop,
     child |-> child, wstatus |-> wstatus, delivered |-> delivered,
     fd_open |-> fd_open, pty |-> pty, prep |-> prep, procs |-> procs,
     now |-> now, nstarts |-> nstarts,
     ev |-> NoEv]

\* the log of an event of the given kind; listed, the sheriff_ids of the last
\* orders the deputy accepted, is carried from event to event
Log(kind, arg) == [NoEv EXCEPT !.kind = kind, !.arg = arg, !.listed = ev.listed]

Begin(kind, arg) == [Cur EXCEPT !.ev = Log(kind, arg)]

\* F applied to the value of v.  The handlers below take the state they work
\* on by value: it is computed once, before the handler runs.
ByValue(v, F(_)) == CHOOSE r \in {F(x) : x \in {v}} : TRUE

\* ---------------------------------------------------------------- procman
\* Procman::StartCommand.  fork_ok: forkpty succeeds; junk: the value left in
\* the uninitialised local stdin_fd when forkpty fails.
StartCommand(Din, c, fork_ok, junk) ==
    ByValue(Din, LAMBDA D :
    IF D.cmd[c].pid # 0 THEN [D |-> D, status |-> -1]
    ELSE
      LET closed == [D EXCEPT !.fd_open[c] = IF D.cmd[c].stdout_fd >= 0 THEN FALSE ELSE @,
                              !.cmd[c].stdout_fd = -1,
                              !.cmd[c].stdin_fd = -1,
                              !.cmd[c].exit_status = 0]
      IN IF fork_ok
         THEN [D |-> [closed EXCEPT !.cmd[c].pid = PidOf(c),
                                    !.cmd[c].stdin_fd = MasterFd(c),
                                    !.cmd[c].stdout_fd = MasterFd(c),
                                    !.fd_open[c] = TRUE,
                                    !.pty[c] = 0,
                                    !.child[c] = "alive",
                                    !.delivered[c] = {},
                                    !.ev.forked = @ \cup {c}],
               status |-> 0]
         ELSE [D |-> [closed EXCEPT !.cmd[c].stdin_fd = junk], status |-> -1])

\* GetPidInfo: fscanf of "pid (name) state ppid pgrp session" with
\* "%d %s %c %d %d %d".  %s stops at white space, so the six fields are read
\* only if the name is one word.
GetPidInfo(ps, pid) == ps[pid].alive /\ ps[pid].comm_words = 1

\* get_all_pids_and_ppids: /proc is read in the order of the pids, and a
\* process is entered as a child only if its parent was read before it
ChildrenOf(ps, pid) ==
    {p \in DescPids : GetPidInfo(ps, p) /\ ps[p].ppid = pid /\ pid < p}

RECURSIVE pid_info_get_descendants(_, _, _)
pid_info_get_descendants(ps, front, seen) ==
    IF front = {} THEN seen
    ELSE LET more == UNION {ChildrenOf(ps, q) : q \in front} \ seen
         IN pid_info_get_descendants(ps, more, seen \cup more)

procinfo_get_descendants(ps, pid) ==
    pid_info_get_descendants(ps, ChildrenOf(ps, pid), ChildrenOf(ps, pid))

procinfo_is_orphaned_child_of(ps, orphan, parent) ==
    /\ GetPidInfo(ps, orphan)
    /\ ps[orphan].ppid = InitPid
    /\ ps[orphan].pgrp = parent
    /\ ps[orphan].session = parent

\* kill(pid, SIGKILL) for the pids of S: the processes end, and their children
\* go to init, once the handler that signalled them is done
Killed(ps, S) ==
    [p \in DescPids |->
        IF p \in S THEN NoProc
        ELSE IF ps[p].alive /\ ps[p].ppid \in S
             THEN [ps[p] EXCEPT !.ppid = InitPid] ELSE ps[p]]

\* KillCommmand whose SIGKILL never reaches the child
KillCommmandSparesChild(Din, c, signum) ==
    ByValue(Din, LAMBDA D :
    IF D.cmd[c].pid = 0 THEN [D |-> D, status |-> -22]
    ELSE IF D.child[c] = "none" THEN [D |-> D, status |-> -3]
    ELSE LET descendants == procinfo_get_descendants(D.procs, D.cmd[c].pid)
         IN [D |-> [D EXCEPT !.ev.sent = @ \cup {<<c, signum>>},
                             !.delivered[c] = IF D.child[c] = "alive" /\ signum # SIGKILL
                                              THEN @ \cup {signum} ELSE @,
                             !.ev.sent_desc = @ \cup {<<p, signum>> : p \in descendants},
                             !.procs = IF signum = SIGKILL
                                       THEN Killed(@, descendants) ELSE @,
                             !.cmd[c].descendants_to_kill_ = @ \cup descendants],
             status |-> 0])

\* Procman::KillCommmand: -EINVAL without a pid, -ESRCH when the process is gone
KillCommmand(Din, c, signum) ==
    ByValue(Din, LAMBDA D :
    IF D.cmd[c].pid = 0 THEN [D |-> D, status |-> -22]
    ELSE IF D.child[c] = "none" THEN [D |-> D, status |-> -3]
    ELSE LET descendants == procinfo_get_descendants(D.procs, D.cmd[c].pid)
         IN [D |-> [D EXCEPT !.ev.sent = @ \cup {<<c, signum>>},
                             !.delivered[c] = IF D.child[c] = "alive"
                                              THEN @ \cup {signum} ELSE @,
                             !.ev.sent_desc = @ \cup {<<p, signum>> : p \in descendants},
                             !.procs = IF signum = SIGKILL
                                       THEN Killed(@, descendants) ELSE @,
                             !.cmd[c].descendants_to_kill_ = @ \cup descendants],
             status |-> 0])

\* a CloseDeadPipes that closes the descriptor and keeps its number
CloseDeadPipesKeepsFd(Din, c) ==
    ByValue(Din, LAMBDA D :
    IF D.cmd[c].stdout_fd < 0 /\ D.cmd[c].stdin_fd < 0 THEN D
    ELSE IF D.cmd[c].pid # 0 THEN D
    ELSE [D EXCEPT !.fd_open[c] = FALSE])

\* Procman::CloseDeadPipes
CloseDeadPipes(Din, c) ==
    ByValue(Din, LAMBDA D :
    IF D.cmd[c].stdout_fd < 0 /\ D.cmd[c].stdin_fd < 0 THEN D
    ELSE IF D.cmd[c].pid # 0 THEN D
    ELSE [D EXCEPT !.fd_open[c] = IF D.cmd[c].stdout_fd >= 0 THEN FALSE ELSE @,
                   !.cmd[c].stdin_fd = -1,
                   !.cmd[c].stdout_fd = -1])

\* Procman::CheckCommand throws std::invalid_argument for a command the process
\* manager does not own; nothing catches it, so the deputy terminates
CheckCommand(Din, c) ==
    ByValue(Din, LAMBDA D :
    IF c \in D.pm_commands THEN D
    ELSE [D EXCEPT !.mainloop = "crashed", !.ev.threw = TRUE])

\* a RemoveCommand that does not look at the pid of the command
RemoveCommandWhileRunning(Din, c) ==
    ByValue(Din, LAMBDA D :
    LET K == CheckCommand(D, c)
    IN IF K.ev.threw THEN K
       ELSE [CloseDeadPipes(D, c) EXCEPT !.pm_commands = @ \ {c}])

\* Procman::RemoveCommand: refuses a command that still runs
RemoveCommand(Din, c) ==
    ByValue(Din, LAMBDA D :
    LET K == CheckCommand(D, c)
    IN IF K.ev.threw THEN K
       ELSE IF D.cmd[c].pid # 0 THEN D
       ELSE [CloseDeadPipes(D, c) EXCEPT !.pm_commands = @ \ {c}])

\* Procman::GetCommandStatus
Running(D, c) == D.cmd[c].pid > 0
Stopped(D, c) == D.cmd[c].pid = 0

\* ---------------------------------------------------------------- deputy
\* the deputy no longer runs as written: it was terminated, or it went on after
\* undefined behaviour and nothing more is known about it
Crashed(D) == D.mainloop \in {"crashed", "undefined"}

\* A use of a freed DeputyCommand.  I.ubc chooses the outcome: the deputy
\* crashes, or it goes on in a way the source does not determine.
UseAfterFree(Din, I) ==
    ByValue(Din, LAMBDA D :
    [D EXCEPT !.ev.ub = TRUE,
              !.mainloop = IF I.ubc THEN "crashed" ELSE "undefined"])

\* a loop that dereferences the DeputyCommand of every entry of commands_
Touch(Din, I) ==
    ByValue(Din, LAMBDA D :
    IF D.freed = {} THEN D ELSE UseAfterFree(D, I))

\* a dereference of the DeputyCommand of entry c
TouchCmd(Din, c, I) ==
    ByValue(Din, LAMBDA D :
    IF c \in D.freed THEN UseAfterFree(D, I) ELSE D)

\* printf_and_transmit / transmit_str: one PM_OUTPUT message
printf_and_transmit(D, sheriff_id, what) ==
    [D EXCEPT !.ev.out = @ \cup {<<sheriff_id, what>>}, !.ev.nout = @ + 1]

\* transmit_proc_info: one PM_INFO message listing every entry of commands_
transmit_proc_info(Din, I) ==
    ByValue(Din, LAMBDA D :
    LET T == Touch(D, I)
    IN IF Crashed(T) THEN T ELSE [T EXCEPT !.ev.info = @ + 1])

\* g_timeout_add for the respawn source: the id of a source that is still
\* pending is overwritten, the source itself stays pending
AddRespawnSource(Din, c) ==
    ByValue(Din, LAMBDA D :
    [D EXCEPT !.timers[c] = [cur |-> TRUE, old |-> IF @.cur THEN @.old + 1 ELSE @.old],
              !.mi[c].respawn_timeout_id = 1])

maybe_schedule_respawn(Din, c) ==
    ByValue(Din, LAMBDA D :
    IF D.mi[c].auto_respawn /\ ~D.mi[c].should_be_stopped /\ ~D.exiting
    THEN AddRespawnSource(D, c)
    ELSE D)

\* x >> d for an int x >= 0; a count of INT_BITS or more is undefined: the
\* hardware masks the count (x86) or shifts everything out (ARM)
ShiftRight(x, d, masks) ==
    LET Shr(n) == IF n = INT_BITS - 1 THEN 0 ELSE x \div (2 ^ n)
    IN IF d < INT_BITS THEN Shr(d)
       ELSE IF masks THEN Shr(d % INT_BITS) ELSE 0

\* (int) ((timestamp_now() - last_start_time) / 1000)
MsSinceStarted(D, c, I) ==
    IF D.mi[c].last_start_time = 0 THEN I.ms0
    ELSE (D.now - D.mi[c].last_start_time) * 1000

\* a backoff update that doubles without the cap
NextBackoffUncapped(backoff, ms_since_started, masks) ==
    IF ms_since_started < MAX_RESPAWN_DELAY_MS
    THEN backoff * RESPAWN_BACKOFF_RATE
    ELSE Max(MIN_RESPAWN_DELAY_MS,
             ShiftRight(backoff, ms_since_started \div MAX_RESPAWN_DELAY_MS, masks))

\* the respawn backoff update of start_cmd
NextBackoff(backoff, ms_since_started, masks) ==
    IF ms_since_started < MAX_RESPAWN_DELAY_MS
    THEN Min(MAX_RESPAWN_DELAY_MS, backoff * RESPAWN_BACKOFF_RATE)
    ELSE Max(MIN_RESPAWN_DELAY_MS,
             ShiftRight(backoff, ms_since_started \div MAX_RESPAWN_DELAY_MS, masks))

start_cmd(Din, c, desired_runid, I) ==
    ByValue(Din, LAMBDA D :
    IF D.exiting THEN D
    ELSE
      LET D1 == [D EXCEPT !.mi[c].should_be_stopped = FALSE,
                          !.mi[c].respawn_timeout_id = 0,
                          !.timers[c] = [cur |-> FALSE,
                                         old |-> IF @.cur THEN @.old + 1 ELSE @.old],
                          !.mi[c].respawn_backoff =
                              NextBackoff(@, MsSinceStarted(D, c, I), I.masks),
                          !.mi[c].last_start_time = D.now,
                          !.nstarts = @ + 1,
                          !.ev.attempts = @ \cup {c}]
      IN ByValue(StartCommand(D1, c, c \notin I.ffail, I.junk), LAMBDA r :
         IF r.status # 0
         THEN printf_and_transmit(
                  maybe_schedule_respawn(
                      printf_and_transmit(r.D, 0, "couldnt_start"), c),
                  c, "couldnt_start")
         ELSE [r.D EXCEPT !.mi[c].stdout_ioc = TRUE,
                          !.mi[c].actual_runid = desired_runid,
                          !.mi[c].num_kills_sent = 0,
                          !.mi[c].first_kill_time = 0]))

\* a stop_cmd that does not wait for stop_time_allowed to pass
stop_cmdWithoutGrace(Din, c) ==
    ByValue(Din, LAMBDA D :
    IF D.cmd[c].pid = 0 THEN D
    ELSE
      LET D1 == [D EXCEPT !.mi[c].should_be_stopped = TRUE,
                          !.timers[c].cur = IF D.mi[c].respawn_timeout_id # 0
                                            THEN FALSE ELSE @]
          Report(r) == IF r.status # 0
                       THEN printf_and_transmit(r.D, c, "kill_error") ELSE r.D
      IN IF D.mi[c].first_kill_time = 0
         THEN LET r == KillCommmand(D1, c, D.mi[c].stop_signal)
              IN Report([r EXCEPT !.D.mi[c].first_kill_time = D.now,
                                  !.D.mi[c].num_kills_sent = @ + 1])
         ELSE Report(KillCommmand(D1, c, SIGKILL)))

stop_cmd(Din, c) ==
    ByValue(Din, LAMBDA D :
    IF D.cmd[c].pid = 0 THEN D
    ELSE
      LET D1 == [D EXCEPT !.mi[c].should_be_stopped = TRUE,
                          !.timers[c].cur = IF D.mi[c].respawn_timeout_id # 0
                                            THEN FALSE ELSE @]
          sigkill_time == D.mi[c].first_kill_time + D.mi[c].stop_time_allowed
          Report(r) == IF r.status # 0
                       THEN printf_and_transmit(r.D, c, "kill_error") ELSE r.D
      IN IF D.mi[c].first_kill_time = 0
         THEN LET r == KillCommmand(D1, c, D.mi[c].stop_signal)
              IN Report([r EXCEPT !.D.mi[c].first_kill_time = D.now,
                                  !.D.mi[c].num_kills_sent = @ + 1])
         ELSE IF D.now > sigkill_time
         THEN Report(KillCommmand(D1, c, SIGKILL))
         ELSE D1)

\* Procman::CheckForDeadChildren: one waitpid(-1, WNOHANG).  ord is the order
\* in which the kernel hands out the waiting children.
Zombies(D) == {c \in SheriffIds : D.child[c] = "zombie"}

FirstIn(ord, Z) == ord[CHOOSE i \in 1..Len(ord) : ord[i] \in Z /\ \A j \in 1..(i - 1) : ord[j] \notin Z]

\* waitpid(-1) returns the exited children of the deputy in the order ord; an
\* entry of ord that is no sheriff_id is a child that no command started
Exited(D, ord) == Zombies(D) \cup ({ord[i] : i \in 1..Len(ord)} \ SheriffIds)

CheckForDeadChildren(Din, ord) ==
    ByValue(Din, LAMBDA D :
    IF Exited(D, ord) = {} THEN [D |-> D, dead |-> NoCmd]
    ELSE IF FirstIn(ord, Exited(D, ord)) \notin SheriffIds THEN [D |-> D, dead |-> NoCmd]
    ELSE
      LET z == FirstIn(ord, Exited(D, ord))
          W == [D EXCEPT !.child[z] = "none", !.wstatus[z] = 0]
          orphans == {p \in D.cmd[z].descendants_to_kill_ :
                         procinfo_is_orphaned_child_of(D.procs, p, PidOf(z))}
      IN IF z \in D.pm_commands /\ D.cmd[z].pid = PidOf(z)
         THEN [D |-> [W EXCEPT !.cmd[z].pid = 0,
                               !.cmd[z].exit_status = D.wstatus[z],
                               !.ev.reaped = @ \cup {z},
                               !.ev.sent_desc = @ \cup {<<p, SIGKILL>> : p \in orphans},
                               !.procs = Killed(@, orphans)],
               dead |-> z]
         ELSE [D |-> W, dead |-> NoCmd])

\* char buf[1024] of pipe_data_ready, and the most one read() takes from the
\* pty: sizeof (buf) - 1 bytes
BufSize == 1024
ReadMax == BufSize - 1

\* pipe_data_ready with G_IO_IN: one read() of the pty; what it took is sent
\* on as one PM_OUTPUT message
pipe_data_ready(D, c) ==
    [D EXCEPT !.ev.out = @ \cup {<<c, "child_output">>},
              !.pty[c] = @ - Min(@, ReadMax)]

\* poll() of the dead child's pty: there are bytes nobody read; the child of
\* a failed execvp wrote the error to its terminal before it called exit(-1)
PollIn(D, c) ==
    /\ D.cmd[c].stdout_fd >= 0
    /\ D.pty[c] > 0 \/ D.cmd[c].exit_status = EXEC_FAILED_STATUS

\* the body of the loop of check_for_dead_children for the dead command c
HandleDeadChild(Din, c) ==
    ByValue(Din, LAMBDA D :
    LET D0 == IF PollIn(D, c) THEN pipe_data_ready(D, c) ELSE D
        D1 == IF WIFSIGNALED(D0.cmd[c].exit_status)
              THEN printf_and_transmit(D0, c, "signal_name") ELSE D0
        D2 == IF D1.mi[c].stdout_ioc
              THEN CloseDeadPipes([D1 EXCEPT !.mi[c].stdout_ioc = FALSE], c)
              ELSE D1
    IN IF D2.mi[c].remove_requested
       THEN RemoveCommand([D2 EXCEPT !.freed = @ \cup {c},
                                     !.ev.destroyed = @ \cup {c}], c)
       ELSE maybe_schedule_respawn(D2, c))

\* the loop of check_for_dead_children; r is what the last call of
\* CheckForDeadChildren returned
RECURSIVE DeadChildrenLoop(_, _)
DeadChildrenLoop(rin, I) ==
    ByValue(rin, LAMBDA r :
    IF r.dead = NoCmd \/ Crashed(r.D) THEN r.D
    ELSE ByValue(CheckForDeadChildren(HandleDeadChild(r.D, r.dead), I.ord), LAMBDA n :
         DeadChildrenLoop([D |-> transmit_proc_info(n.D, I), dead |-> n.dead], I)))

check_for_dead_children(Din, I) ==
    ByValue(Din, LAMBDA D :
    DeadChildrenLoop(CheckForDeadChildren(D, I.ord), I))

\* ---------------------------------------------------------------- orders
\* find_local_cmd: the record whose sheriff_id an orders entry names
find_local_cmd(D, sheriff_id) ==
    IF sheriff_id \in D.commands_ THEN sheriff_id ELSE NoCmd

\* procmd_orders_find_cmd: is sheriff_id listed in the orders?
procmd_orders_find_cmd(orders, sheriff_id) ==
    \E i \in 1..Len(orders.cmds) : orders.cmds[i].sheriff_id = sheriff_id

\* procman_add_cmd: the process manager takes a new command, not started
procman_add_cmd(Din, c, exec_str, cmd_id) ==
    ByValue(Din, LAMBDA D :
    [D EXCEPT !.pm_commands = @ \cup {c},
              !.cmd[c] = NewCmd(exec_str, cmd_id)])

\* the "if not, then create it" branch of _handle_orders2
CreateCommand(Din, e) ==
    ByValue(procman_add_cmd(Din, e.sheriff_id, e.exec_str, e.command_id),
            LAMBDA D :
    LET c == e.sheriff_id
    IN [D EXCEPT !.mi[c] = [ZeroMi EXCEPT !.group = e.group,
                                          !.id = e.command_id,
                                          !.auto_respawn = e.auto_respawn,
                                          !.stop_signal = e.stop_signal,
                                          !.stop_time_allowed = e.stop_time_allowed,
                                          !.last_start_time = 0,
                                          !.respawn_backoff = MIN_RESPAWN_DELAY_MS,
                                          !.respawn_timeout_id = 0],
                 !.commands_ = @ \cup {c},
                 !.ev.created = @ \cup {c},
                 !.ev.changed = TRUE])

\* the attribute updates of _handle_orders2; exec string, id and group count
\* as an action taken, auto_respawn, stop_signal and stop_time_allowed do not
UpdateAttributes(Din, e) ==
    ByValue(Din, LAMBDA D :
    LET c == e.sheriff_id
    IN [D EXCEPT !.cmd[c].exec_str = e.exec_str,
                 !.cmd[c].cmd_id = e.command_id,
                 !.mi[c].id = e.command_id,
                 !.mi[c].auto_respawn = e.auto_respawn,
                 !.mi[c].group = e.group,
                 !.mi[c].stop_signal = e.stop_signal,
                 !.mi[c].stop_time_allowed = e.stop_time_allowed,
                 !.ev.changed = @ \/ D.cmd[c].exec_str # e.exec_str
                                  \/ D.mi[c].id # e.command_id
                                  \/ D.mi[c].group # e.group])

\* a reconciliation that restarts a running command on every orders message
ReconcileRestartsAlways(Din, e, was_stopped, I) ==
    ByValue(Din, LAMBDA D :
    LET c == e.sheriff_id
        D1 == [D EXCEPT !.mi[c].should_be_stopped = e.force_quit]
    IN IF was_stopped /\ ~D1.mi[c].should_be_stopped
       THEN [start_cmd(D1, c, e.desired_runid, I) EXCEPT !.ev.changed = TRUE]
       ELSE [stop_cmd(D1, c) EXCEPT !.ev.changed = TRUE])

\* the start / stop / adopt-runid decision of _handle_orders2
Reconcile(Din, e, was_stopped, I) ==
    ByValue(Din, LAMBDA D :
    LET c == e.sheriff_id
        D1 == [D EXCEPT !.mi[c].should_be_stopped = e.force_quit]
    IN IF was_stopped /\ D1.mi[c].actual_runid # e.desired_runid
          /\ ~D1.mi[c].should_be_stopped
       THEN [start_cmd(D1, c, e.desired_runid, I) EXCEPT !.ev.changed = TRUE]
       ELSE IF ~was_stopped
               /\ (D1.mi[c].should_be_stopped
                   \/ e.desired_runid # D1.mi[c].actual_runid)
       THEN [stop_cmd(D1, c) EXCEPT !.ev.changed = TRUE]
       ELSE [D1 EXCEPT !.mi[c].actual_runid = e.desired_runid])

\* one iteration of the loop over orders->cmds
HandleEntry(Din, e, I) ==
    ByValue(Din, LAMBDA D :
    LET T == TouchCmd(D, e.sheriff_id, I)
        D1 == IF find_local_cmd(T, e.sheriff_id) = NoCmd
              THEN CreateCommand(T, e) ELSE T
    IN IF Crashed(T) THEN T
       ELSE Reconcile(UpdateAttributes(D1, e), e, Stopped(D1, e.sheriff_id), I))

RECURSIVE HandleEntries(_, _, _, _)
HandleEntries(Din, cmds, i, I) ==
    ByValue(Din, LAMBDA D :
    IF i > Len(cmds) \/ Crashed(D) THEN D
    ELSE HandleEntries(HandleEntry(D, cmds[i], I), cmds, i + 1, I))

\* one iteration of the "cull orphaned commands" loop
CullOne(Din, c) ==
    ByValue(Din, LAMBDA D :
    [(IF D.cmd[c].pid # 0
      THEN stop_cmd([D EXCEPT !.mi[c].remove_requested = TRUE], c)
      ELSE RemoveCommand([D EXCEPT !.freed = @ \cup {c},
                                   !.ev.destroyed = @ \cup ({c} \ D.freed)], c))
     EXCEPT !.ev.changed = TRUE])

RECURSIVE CullAll(_, _)
CullAll(Din, toremove) ==
    ByValue(Din, LAMBDA D :
    IF toremove = {} \/ Crashed(D) THEN D
    ELSE LET c == CHOOSE x \in toremove : \A y \in toremove : x <= y
         IN CullAll(CullOne(D, c), toremove \ {c}))

Cull(Din, orders, I) ==
    ByValue(Din, LAMBDA D :
    LET T == Touch(D, I)
        toremove == {c \in T.commands_ : ~procmd_orders_find_cmd(orders, c)}
    IN IF Crashed(T) THEN T ELSE CullAll(T, toremove))

\* one diagnostic for the whole message instead of one per command
StaleDiagnosticsOnce(Din, cmds, i) ==
    IF Len(cmds) = 0 THEN Din
    ELSE printf_and_transmit(Din, cmds[1].sheriff_id, "stale")

RECURSIVE StaleDiagnostics(_, _, _)
StaleDiagnostics(Din, cmds, i) ==
    ByValue(Din, LAMBDA D :
    IF i > Len(cmds) THEN D
    ELSE StaleDiagnostics(printf_and_transmit(D, cmds[i].sheriff_id, "stale"),
                          cmds, i + 1))

_handle_orders2(Din, orders, I) ==
    ByValue(Din, LAMBDA D :
    IF D.exiting THEN D
    ELSE IF ~orders.for_me THEN D
    ELSE IF orders.age > PROCMAN_MAX_MESSAGE_AGE_SEC
    THEN StaleDiagnostics(D, orders.cmds, 1)
    ELSE LET D0 == [D EXCEPT !.ev.listed = {orders.cmds[i].sheriff_id :
                                                i \in 1..Len(orders.cmds)}]
         IN ByValue(HandleEntries(D0, orders.cmds, 1, I), LAMBDA D1 :
            ByValue(IF Crashed(D1) THEN D1 ELSE Cull(D1, orders, I), LAMBDA D2 :
            IF ~Crashed(D2) /\ D2.ev.changed
            THEN transmit_proc_info(D2, I) ELSE D2)))

\* ---------------------------------------------------------------- timers, signals
\* an on_scheduled_respawn that does not look at the flags of the command
on_scheduled_respawnUnconditional(Din, c, I) ==
    ByValue(Din, LAMBDA D :
    LET T == TouchCmd(D, c, I)
    IN IF Crashed(T) THEN T
       ELSE start_cmd(T, c, T.mi[c].actual_runid, I))

on_scheduled_respawn(Din, c, I) ==
    ByValue(Din, LAMBDA D :
    LET T == TouchCmd(D, c, I)
    IN IF Crashed(T) THEN T
       ELSE IF T.mi[c].auto_respawn /\ ~T.mi[c].should_be_stopped /\ ~T.exiting
       THEN start_cmd(T, c, T.mi[c].actual_runid, I)
       ELSE T)

\* one iteration of the loop of on_quit_timeout
QuitOne(Din, c) ==
    ByValue(Din, LAMBDA D :
    LET K == IF D.cmd[c].pid # 0 THEN KillCommmand(D, c, SIGKILL).D ELSE D
    IN RemoveCommand([K EXCEPT !.freed = @ \cup {c},
                               !.ev.destroyed = @ \cup ({c} \ D.freed)], c))

RECURSIVE QuitAll(_, _)
QuitAll(Din, todo) ==
    ByValue(Din, LAMBDA D :
    IF todo = {} \/ Crashed(D) THEN D
    ELSE LET c == CHOOSE x \in todo : \A y \in todo : x <= y
         IN QuitAll(QuitOne(D, c), todo \ {c}))

on_quit_timeout(Din, I) ==
    ByValue(Din, LAMBDA D :
    ByValue(Touch(D, I), LAMBDA T :
    IF Crashed(T) THEN T
    ELSE ByValue(QuitAll(T, T.commands_), LAMBDA Q :
         IF Crashed(Q) THEN Q
         ELSE [Q EXCEPT !.mainloop = "quit"])))

\* the stop_signal loop of glib_handle_signal
RECURSIVE SignalAll(_, _)
SignalAll(Din, todo) ==
    ByValue(Din, LAMBDA D :
    IF todo = {} THEN D
    ELSE LET c == CHOOSE x \in todo : \A y \in todo : x <= y
             K == IF D.cmd[c].pid # 0
                  THEN KillCommmand(D, c, D.mi[c].stop_signal).D ELSE D
         IN SignalAll(K, todo \ {c}))

RECURSIVE SetMax(_)
SetMax(S) ==
    IF S = {} THEN 0
    ELSE LET x == CHOOSE y \in S : TRUE IN Max(x, SetMax(S \ {x}))

\* a max_stop_time_allowed that starts at 0
MaxStopTimeNoFloor(Din) ==
    ByValue(Din, LAMBDA D :
    SetMax({D.mi[c].stop_time_allowed : c \in {x \in D.commands_ : D.cmd[x].pid # 0}}))

\* max_stop_time_allowed of glib_handle_signal: starts at 1, raised by every
\* running command's stop_time_allowed
MaxStopTimeAllowed(Din) ==
    ByValue(Din, LAMBDA D :
    Max(MIN_QUIT_TIME_ALLOWED,
        SetMax({D.mi[c].stop_time_allowed : c \in {x \in D.commands_ : D.cmd[x].pid # 0}})))

AllDead(D) == \A c \in D.pm_commands : D.cmd[c].pid = 0

glib_handle_signal(Din, signal, I) ==
    ByValue(Din, LAMBDA D :
    ByValue(IF signal = SIGCHLD
            THEN check_for_dead_children(D, I)
            ELSE LET T == IF \E c \in D.freed : D.cmd[c].pid # 0
                          THEN UseAfterFree(D, I) ELSE D
                 IN IF Crashed(T) THEN T
                    ELSE [SignalAll(T, T.commands_) EXCEPT
                             !.exiting = TRUE,
                             !.quit_timers = @ \cup {T.now + MaxStopTimeAllowed(T)}],
            LAMBDA D1 :
    IF ~Crashed(D1) /\ D1.exiting /\ AllDead(D1)
    THEN [D1 EXCEPT !.mainloop = "quit"]
    ELSE D1))

\* ---------------------------------------------------------------- inputs
\* the attributes the sheriff gives command c apart from its run state
Profile(c) ==
    [stop_signal |-> IF c = 1 THEN SIGINT ELSE SIGTERM,
     stop_time_allowed |-> IF c = 1 THEN 0 ELSE 2, group |-> 1, exec_str |-> c,
     command_id |-> c]

\* one procman_lcm_cmd_desired_t
Entry(c, desired_runid, force_quit, auto_respawn) ==
    [sheriff_id |-> c, desired_runid |-> desired_runid, force_quit |-> force_quit,
     auto_respawn |-> auto_respawn, stop_signal |-> Profile(c).stop_signal,
     stop_time_allowed |-> Profile(c).stop_time_allowed, group |-> Profile(c).group,
     exec_str |-> Profile(c).exec_str, command_id |-> Profile(c).command_id]

Entries(c) ==
    {Entry(c, r, fq, ar) : r \in RunIds, fq \in BOOLEAN, ar \in BOOLEAN}

\* the command lists of an orders message: at most one entry per sheriff_id
CmdLists ==
    {<<>>} \cup {<<e>> : e \in Entries(1)}

\* a procman_lcm_orders_t: addressed to this host or not, its age in seconds
OrdersMsg(for_me, age, cmds) == [for_me |-> for_me, age |-> age, cmds |-> cmds]

FreshOrders == {OrdersMsg(TRUE, 0, l) : l \in CmdLists}

OtherOrders ==
    {OrdersMsg(FALSE, 0, <<Entry(1, 1, FALSE, TRUE)>>),
     OrdersMsg(TRUE, PROCMAN_MAX_MESSAGE_AGE_SEC + 1, <<Entry(1, 1, FALSE, TRUE)>>)}

\* the orders of the shutdown scenario: both commands are to run with runid 1,
\* command 1 with auto-respawn
BothOrders == OrdersMsg(TRUE, 0, <<Entry(1, 1, FALSE, TRUE), Entry(2, 1, FALSE, FALSE)>>)

QuitOrders == {BothOrders}

OrderIds(o) == {o.cmds[i].sheriff_id : i \in 1..Len(o.cmds)}

\* the choices a handler run leaves to the platform
Oracle(ubc, ms0, masks, ffail, junk, ord) ==
    [ubc |-> ubc, ms0 |-> ms0, masks |-> masks, ffail |-> ffail, junk |-> junk,
     ord |-> ord]

UbChoices == IF freed = {} THEN {FALSE} ELSE BOOLEAN

\* oracles of a handler that may start the commands of S; forkpty can fail
\* for the commands of F
StartOracles(S, F) ==
    LET first == \E c \in S : mi[c].last_start_time = 0
        shifts == IF first
                  THEN {p \in FirstStartMs \X BOOLEAN :
                           p[2] => p[1] \div MAX_RESPAWN_DELAY_MS >= INT_BITS}
                  ELSE {<<0, FALSE>>}
    IN {Oracle(u, p[1], p[2], f, JunkFd, <<1, 2>>) :
            u \in UbChoices, p \in shifts, f \in SUBSET (S \cap F)}

ReapOracles ==
    {Oracle(u, 0, FALSE, {}, JunkFd, ord) :
        u \in UbChoices,
        ord \in IF \A c \in SheriffIds : child[c] = "zombie"
                THEN {<<1, 2>>, <<2, 1>>} ELSE {<<1, 2>>}}

\* ---------------------------------------------------------------- discovery
DISCOVERY_TIME_MS == 1500
DISCOVERY_PERIOD_MS == 200
STATUS_PERIOD_MS == 1000

\* the clock of the discovery phase moves in steps of half a timer period
ClockStepMs == DISCOVERY_PERIOD_MS \div 2
MaxClockSteps == 34

\* the deputies on the network that are named alike: deputy 1 is the deputy
\* whose commands the model follows.  Another name, for foreign messages.
DeputyIds == {1, 2}
DeputyPid(d) == 10 + d
Hostname == "alpha"
Hosts == {"alpha", "beta"}
NoTimer == -1

\* a deputy process that was not started
DeputyOff ==
    [status |-> "off", exit_code |-> 0, deputy_start_time |-> 0, deputy_pid |-> 0,
     info2_subs |-> FALSE, discovery_subs |-> FALSE, orders2_subs |-> FALSE,
     discovery_due |-> NoTimer, status_due |-> NoTimer]

\* a PM_DISCOVER or PM_INFO message on its way to deputy "to"
Msg(to, chan, host, nonce) == [to |-> to, chan |-> chan, host |-> host, nonce |-> nonce]

\* exit(code) in a handler
Exit(dp, code) == [dp EXCEPT !.status = "exited", !.exit_code = code]

\* procman_deputy_discovery_received without the comparison of the nonces
procman_deputy_discovery_receivedAnyNonce(dp, msg, t) ==
    IF t < dp.deputy_start_time + DISCOVERY_TIME_MS
    THEN IF msg.host = Hostname
         THEN [dp |-> Exit(dp, 1), pub |-> {}]
         ELSE [dp |-> dp, pub |-> {}]
    ELSE [dp |-> dp, pub |-> {"PM_INFO"}]

\* procman_deputy_discovery_received at time t: the deputy and what it publishes
procman_deputy_discovery_received(dp, msg, t) ==
    IF t < dp.deputy_start_time + DISCOVERY_TIME_MS
    THEN IF msg.host = Hostname /\ msg.nonce # dp.deputy_pid
         THEN [dp |-> Exit(dp, 1), pub |-> {}]
         ELSE [dp |-> dp, pub |-> {}]
    ELSE [dp |-> dp, pub |-> {"PM_INFO"}]

procman_deputy_info2_received(dp, msg, t) ==
    IF t < dp.deputy_start_time + DISCOVERY_TIME_MS /\ msg.host = Hostname
    THEN [dp |-> Exit(dp, 2), pub |-> {}]
    ELSE [dp |-> dp, pub |-> {}]

\* one_second_timeout: the source stays
one_second_timeout(dp, t) ==
    [dp |-> [dp EXCEPT !.status_due = t + STATUS_PERIOD_MS], pub |-> {"PM_INFO"}]

\* discovery_timeout: publish PM_DISCOVER and stay, or change the
\* subscriptions, start the status timer, publish a status and go
discovery_timeout(dp, t) ==
    IF t < dp.deputy_start_time + DISCOVERY_TIME_MS
    THEN [dp |-> [dp EXCEPT !.discovery_due = t + DISCOVERY_PERIOD_MS],
          pub |-> {"PM_DISCOVER"}]
    ELSE one_second_timeout([dp EXCEPT !.info2_subs = FALSE,
                                       !.discovery_subs = TRUE,
                                       !.orders2_subs = TRUE,
                                       !.discovery_due = NoTimer], t)

\* main, up to g_main_loop_run, of deputy d started at time t
StartDeputy(d, t) ==
    discovery_timeout([DeputyOff EXCEPT !.status = "run",
                                        !.deputy_start_time = t,
                                        !.deputy_pid = DeputyPid(d),
                                        !.info2_subs = TRUE,
                                        !.discovery_subs = TRUE], t)

\* deputy d publishes on the channels of pub: every running deputy, d
\* included, gets the message
Publish(n, d, pub) ==
    [n EXCEPT !.msgs = @ \cup
        {Msg(to, chan, Hostname, IF chan = "PM_DISCOVER" THEN n.dep[d].deputy_pid ELSE 0) :
            to \in {x \in DeputyIds : n.dep[x].status = "run"}, chan \in pub}]

\* the network when deputy 1 has just been started at time 0
StartedNet ==
    LET r == StartDeputy(1, 0)
    IN Publish([dep |-> [d \in DeputyIds |-> IF d = 1 THEN r.dp ELSE DeputyOff],
                msgs |-> {}, clock_ms |-> 0], 1, r.pub)

\* deputy 1 in Active mode and alone, its status timer left aside
ActiveNet ==
    [dep |-> [d \in DeputyIds |->
                 IF d = 1
                 THEN [DeputyOff EXCEPT !.status = "run", !.deputy_pid = DeputyPid(1),
                                        !.deputy_start_time = 0 - DISCOVERY_TIME_MS,
                                        !.discovery_subs = TRUE, !.orders2_subs = TRUE]
                 ELSE DeputyOff],
     msgs |-> {}, clock_ms |-> 0]

\* ---------------------------------------------------------------- event loop
\* EventLoop of lcm_util.hpp.  Notifiers are numbered in the order of their
\* registration; NullNotifier is the nullptr of a slot of sockets_ready_.
MaxLoopTime == 4
NullNotifier == 0
NotifierIds == {1, 2, 3}
TimerIds == {1, 2, 3}

\* timers 1 and 3 are repeating, timer 2 is single-shot; interval_ms_ in
\* clock steps: timers 1 and 3 have the same interval
SingleShot(tm) == tm = 2
Interval(tm) == IF tm = 2 THEN 2 ELSE 1

\* what a socket callback does besides its own work
Effect(op, arg) == [op |-> op, arg |-> arg]
Effects ==
    {Effect("none", 0), Effect("add", 0), Effect("quit", 0)}
    \cup {Effect("drop", n) : n \in NotifierIds}
    \cup {Effect("start", tm) : tm \in TimerIds}

\* what a timer callback does besides its own work: Quit, or Start, Stop or
\* the drop of the handle of another timer
TimerEffects ==
    {Effect("none", 0), Effect("quit", 0)}
    \cup {Effect(op, tm) : op \in {"start", "stop", "destroy"}, tm \in TimerIds}

\* a timer that was not added, or whose handle was dropped
NoLoopTimer == [deadline_ |-> 0, active_ |-> FALSE, exists |-> FALSE, fired |-> 0]

\* a callback that is invoked: the deadline of the timer, whether the handle
\* of the notifier or timer had been dropped, whether Quit had been called
Call(L, kind, id) ==
    [kind |-> kind, id |-> id,
     deadline |-> IF kind = "timer" THEN L.timer[id].deadline_ ELSE 0,
     gone |-> IF kind = "timer" THEN ~L.timer[id].exists ELSE id \in L.dropped,
     after_quit |-> L.quit_]

\* active_timers_.insert: the set is ordered by deadline_ alone, so a timer
\* whose deadline equals that of a member is not inserted
InsertActive(L, tm) ==
    IF \E x \in L.active_timers_ : L.timer[x].deadline_ = L.timer[tm].deadline_
    THEN L
    ELSE [L EXCEPT !.active_timers_ = @ \cup {tm}]

\* active_timers_.erase(timer): the member whose deadline equals that of
\* the timer is erased, be it the timer or another one
EraseActive(L, tm) ==
    [L EXCEPT !.active_timers_ =
        {x \in @ : L.timer[x].deadline_ # L.timer[tm].deadline_}]

\* Timer::Start; started logs that Start() returned for the timer
TimerStart(L, tm) ==
    IF L.timer[tm].active_
    THEN [L EXCEPT !.started = @ \cup {tm}]
    ELSE InsertActive([L EXCEPT !.started = @ \cup {tm},
                                !.inactive_timers_ = @ \ {tm},
                                !.timers_to_reschedule_ = @ \ {tm},
                                !.timer[tm].deadline_ = L.now_ + Interval(tm),
                                !.timer[tm].active_ = TRUE,
                                !.timer[tm].fired = 0], tm)

\* Timer::Stop
TimerStop(L, tm) ==
    IF ~L.timer[tm].active_
    THEN L
    ELSE [EraseActive(L, tm) EXCEPT !.started = @ \ {tm},
                                    !.timers_to_reschedule_ = @ \ {tm},
                                    !.inactive_timers_ = @ \cup {tm},
                                    !.timer[tm].active_ = FALSE]

\* Timer::~Timer
TimerDestroy(L, tm) ==
    [EraseActive(L, tm) EXCEPT !.started = @ \ {tm},
                               !.timers_to_reschedule_ = @ \ {tm},
                               !.inactive_timers_ = @ \ {tm},
                               !.timer[tm].active_ = FALSE,
                               !.timer[tm].exists = FALSE]

\* EventLoop::AddTimer, Timer::Timer
AddTimer(L, tm, active) ==
    LET M == [L EXCEPT !.timer[tm] = [NoLoopTimer EXCEPT !.exists = TRUE]]
    IN IF active
       THEN TimerStart(M, tm)
       ELSE [M EXCEPT !.inactive_timers_ = @ \cup {tm}]

\* the loop after construction, without sockets or timers
NewLoop ==
    [sockets_ |-> <<>>, sockets_ready_ |-> <<>>, ready_used |-> FALSE, made |-> 0,
     dropped |-> {},
     active_timers_ |-> {}, timers_to_reschedule_ |-> {}, inactive_timers_ |-> {},
     timer |-> [tm \in TimerIds |-> NoLoopTimer],
     quit_ |-> FALSE, crashed |-> FALSE, now_ |-> 0,
     polled |-> {}, calls |-> <<>>, started |-> {}]

\* the loop with timers 1 and 2 added as active
EmptyLoop == AddTimer(AddTimer(NewLoop, 1, TRUE), 2, TRUE)

\* EventLoop::AddSocket
AddSocket(L) ==
    [L EXCEPT !.sockets_ = Append(@, L.made + 1), !.made = @ + 1]

\* SocketNotifier::~SocketNotifier.  The test before the write compares an
\* iterator of sockets_ with the end of sockets_ready_, so the write is made
\* whether the notifier is queued or not: a queued notifier is nulled; for
\* any other the write goes past the end of the queue, which crashes when
\* the queue has no storage yet and otherwise does what ub says.
DropNotifier(L, n, ub) ==
    IF \A i \in 1 .. Len(L.sockets_) : L.sockets_[i] # n
    THEN L
    ELSE LET M == [L EXCEPT !.sockets_ = SelectSeq(@, LAMBDA x : x # n),
                            !.dropped = @ \cup {n}]
         IN IF \E i \in 1 .. Len(L.sockets_ready_) : L.sockets_ready_[i] = n
            THEN [M EXCEPT !.sockets_ready_ =
                     [i \in 1 .. Len(@) |-> IF @[i] = n THEN NullNotifier ELSE @[i]]]
            ELSE [M EXCEPT !.crashed = ~L.ready_used \/ ub]

\* notifier->callback_() with the effect e
SocketCallback(L, n, e, ub) ==
    LET M == [L EXCEPT !.calls = Append(@, Call(L, "socket", n))]
    IN CASE e.op = "add" -> IF M.made < Cardinality(NotifierIds) THEN AddSocket(M) ELSE M
         [] e.op = "quit" -> [M EXCEPT !.quit_ = TRUE]
         [] e.op = "drop" -> DropNotifier(M, e.arg, ub)
         [] e.op = "start" -> IF M.timer[e.arg].exists THEN TimerStart(M, e.arg) ELSE M
         [] OTHER -> M

\* the queue of the ready notifiers, in the order of sockets_
ReadyQueueReversed(L, ready) ==
    LET q == SelectSeq(L.sockets_, LAMBDA x : x \in ready)
    IN [i \in 1 .. Len(q) |-> q[Len(q) + 1 - i]]

ReadyQueue(L, ready) == SelectSeq(L.sockets_, LAMBDA x : x \in ready)

\* IterateOnce: the loop over sockets_ready_
RECURSIVE CallReady(_, _, _, _)
CallReady(L, index, eff, ub) ==
    IF index > Len(L.sockets_ready_) \/ L.crashed
    THEN L
    ELSE LET n == L.sockets_ready_[index]
         IN IF n = NullNotifier
            THEN CallReady(L, index + 1, eff, ub)
            ELSE CallReady(SocketCallback(L, n, eff[n], ub), index + 1, eff, ub)

\* first_timer->callback_() with the effect e; a callback does not drop the
\* handle of its own timer
TimerCallback(L, tm, e) ==
    LET M == [L EXCEPT !.calls = Append(@, Call(L, "timer", tm)),
                       !.timer[tm].fired = Min(@ + 1, 2)]
    IN CASE e.op = "quit" -> [M EXCEPT !.quit_ = TRUE]
         [] e.op \in {"start", "stop", "destroy"} /\ ~M.timer[e.arg].exists -> M
         [] e.op = "start" -> TimerStart(M, e.arg)
         [] e.op = "stop" -> TimerStop(M, e.arg)
         [] e.op = "destroy" /\ e.arg # tm -> TimerDestroy(M, e.arg)
         [] OTHER -> M

\* the while loop of ProcessReadyTimers without its test of quit_
RECURSIVE DrainTimersIgnoringQuit(_, _, _)
DrainTimersIgnoringQuit(L, teff, process_time) ==
    IF L.active_timers_ = {}
    THEN L
    ELSE LET first_timer == CHOOSE x \in L.active_timers_ :
                 \A y \in L.active_timers_ : L.timer[x].deadline_ <= L.timer[y].deadline_
         IN IF L.timer[first_timer].deadline_ < process_time
            THEN DrainTimersIgnoringQuit(
                    TimerCallback([L EXCEPT !.active_timers_ = @ \ {first_timer},
                                            !.timers_to_reschedule_ = @ \cup {first_timer}],
                                  first_timer, teff[first_timer]),
                    teff, process_time)
            ELSE L

\* ProcessReadyTimers: the while loop
RECURSIVE DrainTimers(_, _, _)
DrainTimers(L, teff, process_time) ==
    IF L.active_timers_ = {} \/ L.quit_
    THEN L
    ELSE LET first_timer == CHOOSE x \in L.active_timers_ :
                 \A y \in L.active_timers_ : L.timer[x].deadline_ <= L.timer[y].deadline_
         IN IF L.timer[first_timer].deadline_ < process_time
            THEN DrainTimers(
                    TimerCallback([L EXCEPT !.active_timers_ = @ \ {first_timer},
                                            !.timers_to_reschedule_ = @ \cup {first_timer}],
                                  first_timer, teff[first_timer]),
                    teff, process_time)
            ELSE L

\* ProcessReadyTimers: the loop over timers_to_reschedule_, a set ordered by
\* the addresses of the timers: up, in the order of the ids or against it
RECURSIVE Reschedule(_, _, _)
Reschedule(L, todo, up) ==
    IF todo = {}
    THEN [L EXCEPT !.timers_to_reschedule_ = {}]
    ELSE LET tm == CHOOSE x \in todo : \A y \in todo : IF up THEN x <= y ELSE y <= x
         IN Reschedule(
                IF SingleShot(tm) \/ ~L.timer[tm].active_
                THEN [L EXCEPT !.timer[tm].active_ = FALSE,
                               !.inactive_timers_ = @ \cup {tm}]
                ELSE InsertActive([L EXCEPT !.timer[tm].deadline_ = L.now_ + Interval(tm)], tm),
                todo \ {tm}, up)

ProcessReadyTimers(L, teff, up) ==
    LET D == DrainTimers(L, teff, L.now_)
    IN Reschedule(D, D.timers_to_reschedule_, up)

\* EventLoop::IterateOnce.  ready: the notifiers poll reports; eff, teff:
\* what the callbacks do; dt: the time that passes in poll or usleep.
IterateOnce(L0, ready, eff, teff, ub, up, dt) ==
    LET L == [L0 EXCEPT !.calls = <<>>, !.polled = ready, !.dropped = {},
                        !.started = {}]
        S == IF L.sockets_ # <<>>
             THEN [CallReady([L EXCEPT !.sockets_ready_ = ReadyQueue(L, ready),
                                       !.ready_used = @ \/ ReadyQueue(L, ready) # <<>>,
                                       !.now_ = @ + dt], 1, eff, ub)
                      EXCEPT !.sockets_ready_ = <<>>]
             ELSE [L EXCEPT !.now_ = @ + dt]
    IN IF S.crashed THEN S ELSE ProcessReadyTimers(S, teff, up)

\* ---------------------------------------------------------------- actions
\* the deputy after construction: no commands, main loop running
Fresh ==
    [commands_ |-> {}, mi |-> [c \in SheriffIds |-> ZeroMi], freed |-> {},
     pm_commands |-> {}, cmd |-> [c \in SheriffIds |-> NewCmd(0, 0)],
     timers |-> [c \in SheriffIds |-> NoTimers], exiting |-> FALSE,
     quit_timers |-> {}, mainloop |-> "run",
     child |-> [c \in SheriffIds |-> "none"], wstatus |-> [c \in SheriffIds |-> 0],
     delivered |-> [c \in SheriffIds |-> {}],
     fd_open |-> [c \in SheriffIds |-> FALSE],
     pty |-> [c \in SheriffIds |-> 0], prep |-> NoPrep,
     procs |-> [p \in DescPids |-> NoProc], now |-> 1, nstarts |-> 0,
     ev |-> NoEv]

\* the variables hold the deputy state D
StateIs(D) ==
    /\ commands_ = D.commands_
    /\ mi = D.mi
    /\ freed = D.freed
    /\ pm_commands = D.pm_commands
    /\ cmd = D.cmd
    /\ timers = D.timers
    /\ exiting = D.exiting
    /\ quit_timers = D.quit_timers
    /\ mainloop = D.mainloop
    /\ child = D.child
    /\ wstatus = D.wstatus
    /\ delivered = D.delivered
    /\ fd_open = D.fd_open
    /\ pty = D.pty
    /\ prep = D.prep
    /\ procs = D.procs
    /\ now = D.now
    /\ nstarts = D.nstarts
    /\ ev = D.ev

Init == StateIs(Fresh) /\ sigpipe = <<>> /\ net = ActiveNet /\ loop = EmptyLoop

\* the deputy after its first orders started both commands
InitQuit ==
    /\ \E m \in FirstStartMs :
         StateIs(_handle_orders2(Fresh, BothOrders,
                                 Oracle(FALSE, m, FALSE, {}, JunkFd, <<1, 2>>)))
    /\ sigpipe = <<>>
    /\ net = ActiveNet /\ loop = EmptyLoop

\* the state a handler leaves behind
Apply(D) ==
    /\ commands_' = D.commands_
    /\ mi' = D.mi
    /\ freed' = D.freed
    /\ pm_commands' = D.pm_commands
    /\ cmd' = D.cmd
    /\ timers' = D.timers
    /\ exiting' = D.exiting
    /\ quit_timers' = D.quit_timers
    /\ mainloop' = D.mainloop
    /\ child' = D.child
    /\ wstatus' = D.wstatus
    /\ delivered' = D.delivered
    /\ fd_open' = D.fd_open
    /\ pty' = D.pty
    /\ prep' = D.prep
    /\ procs' = D.procs
    /\ nstarts' = D.nstarts
    /\ ev' = D.ev

\* the bounds of the model
Bounded(D, limit) ==
    /\ \A c \in SheriffIds : D.timers[c].old <= MaxOldTimers
    /\ D.nstarts <= Max(limit, nstarts)

\* procman_deputy_order2_received: a PM_ORDERS message of S is dispatched
HandleOrdersFrom(S, limit, F) ==
    /\ mainloop = "run"
    /\ net.dep[1].status = "run" /\ net.dep[1].orders2_subs
    /\ \E o \in S :
         \E I \in StartOracles(OrderIds(o), F) :
            \E D \in {_handle_orders2(Begin("orders", o), o, I)} :
               Bounded(D, limit) /\ Apply(D)
    /\ UNCHANGED <<sigpipe, now, net, loop>>

HandleOrders == HandleOrdersFrom(FreshOrders \cup OtherOrders, MaxStarts, SheriffIds)

HandleOrdersQuit == HandleOrdersFrom(QuitOrders, MaxStarts, SheriffIds)

\* the respawn source of command c fires in a deputy whose main loop is in one
\* of the given states
RespawnFiresIn(states, limit) ==
    /\ mainloop \in states
    /\ \E c \in commands_ : \E which \in {"cur", "old"} :
         /\ IF which = "cur" THEN timers[c].cur ELSE timers[c].old > 0
         /\ \E I \in StartOracles({c}, SheriffIds) :
              LET B == Begin("respawn", c)
                  F == IF which = "cur"
                       THEN [B EXCEPT !.timers[c].cur = FALSE]
                       ELSE [B EXCEPT !.timers[c].old = @ - 1]
              IN \E D \in {on_scheduled_respawn(F, c, I)} :
                    Bounded(D, limit) /\ Apply(D)
    /\ UNCHANGED <<sigpipe, now, net, loop>>

\* the respawn source of command c fires
RespawnFiresWithin(limit) == RespawnFiresIn({"run"}, limit)

RespawnFires == RespawnFiresWithin(MaxStarts)

RespawnFiresOften == RespawnFiresWithin(MaxRespawnStarts)

\* the self-pipe becomes readable: one signal number is read and handled
HandleSignal ==
    /\ mainloop = "run"
    /\ sigpipe # <<>>
    /\ \E I \in ReapOracles :
         \E D \in {glib_handle_signal(Begin("signal", Head(sigpipe)), Head(sigpipe), I)} :
            Bounded(D, MaxStarts) /\ Apply(D)
    /\ sigpipe' = Tail(sigpipe)
    /\ UNCHANGED <<now, net, loop>>

\* a quit timer expires
QuitTimeout ==
    /\ mainloop = "run"
    /\ \E d \in quit_timers :
         /\ d <= now
         /\ \E u \in UbChoices :
              \E D \in {on_quit_timeout(
                            [Begin("quit", d) EXCEPT !.quit_timers = @ \ {d}],
                            Oracle(u, 0, FALSE, {}, JunkFd, <<1, 2>>))} :
                 Apply(D)
    /\ UNCHANGED <<sigpipe, now, net, loop>>

\* ---------------------------------------------------------------- environment
RangeOf(q) == {q[i] : i \in 1..Len(q)}

\* the kernel raises a signal: signal_handler writes its number to the
\* self-pipe.  A number already waiting in the pipe is not written again: the
\* handler run for the waiting copy finds the same work to do.
Raise(sig) ==
    IF sig \in RangeOf(sigpipe) THEN sigpipe' = sigpipe
    ELSE Len(sigpipe) < MaxSigPipe /\ sigpipe' = Append(sigpipe, sig)

\* a child terminates with a status of own, or by a signal it got
ChildExitsWith(own) ==
    /\ mainloop = "run"
    /\ \E c \in SheriffIds :
         /\ child[c] = "alive"
         /\ \E st \in own \cup delivered[c] :
              /\ child' = [child EXCEPT ![c] = "zombie"]
              /\ wstatus' = [wstatus EXCEPT ![c] = st]
              /\ delivered' = [delivered EXCEPT ![c] = {}]
              /\ procs' = Reparent(procs, PidOf(c))
    /\ Raise(SIGCHLD)
    /\ ev' = Log("exit", 0)
    /\ UNCHANGED <<commands_, mi, freed, pm_commands, cmd, timers, exiting,
                   quit_timers, mainloop, fd_open, pty, prep, net, loop, now, nstarts>>

\* a child terminates: on its own, because exec failed, or by a signal it got
ChildExits == ChildExitsWith({0, EXEC_FAILED_STATUS})

\* a child that runs until it is signalled terminates
ChildKilled == ChildExitsWith({})

\* the deputy is told to shut down
ShutdownSignal ==
    /\ mainloop = "run"
    /\ \E sig \in {SIGTERM} : Raise(sig)
    /\ ev' = Log("shutdown", 0)
    /\ UNCHANGED <<commands_, mi, freed, pm_commands, cmd, timers, exiting,
                   quit_timers, mainloop, child, wstatus, delivered, fd_open, pty, prep, procs,
                   net, loop, now, nstarts>>

\* a second passes; an expired quit timer is dispatched before the next one.
\* The clock stops at MaxNow unless a quit timer is still to expire.
Tick ==
    /\ mainloop = "run"
    /\ now < MaxNow \/ quit_timers # {}
    /\ \A d \in quit_timers : d > now
    /\ now' = now + 1
    /\ ev' = Log("tick", 0)
    /\ UNCHANGED <<commands_, mi, freed, pm_commands, cmd, timers, exiting,
                   quit_timers, mainloop, child, wstatus, delivered, fd_open, pty, prep, procs,
                   net, loop, sigpipe, nstarts>>

\* the deputy at work: orders, respawns, children that exit
Next ==
    \/ HandleOrders
    \/ RespawnFires
    \/ HandleSignal
    \/ ChildExits
    \/ Tick

Spec == Init /\ [][Next]_vars

\* the deputy with two commands that is told to shut down
NextQuit ==
    \/ HandleOrdersQuit
    \/ RespawnFires
    \/ HandleSignal
    \/ QuitTimeout
    \/ ChildExits
    \/ ShutdownSignal
    \/ Tick

SpecQuit ==
    /\ InitQuit
    /\ [][NextQuit]_vars
    /\ WF_vars(HandleSignal)
    /\ WF_vars(QuitTimeout)
    /\ WF_vars(Tick)

\* ---------------------------------------------------------------- restart scenario
\* the runid the command of the restart scenario is started with
RunK == MaxRunId

RunOrders(runid) ==
    OrdersMsg(TRUE, 0, <<Entry(1, runid, FALSE, mi[1].auto_respawn)>>)

\* the deputy after its first orders started command 1 with runid RunK
InitRun ==
    /\ \E m \in FirstStartMs : \E ar \in BOOLEAN :
         StateIs(_handle_orders2(Fresh,
                                 OrdersMsg(TRUE, 0, <<Entry(1, RunK, FALSE, ar)>>),
                                 Oracle(FALSE, m, FALSE, {}, JunkFd, <<1, 2>>)))
    /\ sigpipe = <<>>
    /\ net = ActiveNet /\ loop = EmptyLoop

\* the sheriff has asked for the next runid
Switched == mi[1].first_kill_time # 0 \/ mi[1].actual_runid = RunK + 1

\* the sheriff repeats the orders the command was started with
OrdersKeep == ~Switched /\ HandleOrdersFrom({RunOrders(RunK)}, MaxStarts, {})

\* the sheriff asks for the next runid
OrdersNext == HandleOrdersFrom({RunOrders(RunK + 1)}, MaxStarts, {})

NextRun ==
    \/ OrdersKeep
    \/ OrdersNext
    \/ HandleSignal
    \/ ChildKilled
    \/ Tick

\* the sheriff repeats its orders, the main loop dispatches a pending signal,
\* a child that was sent its stop signal exits
SpecRun ==
    /\ InitRun
    /\ [][NextRun]_vars
    /\ WF_vars(OrdersNext)
    /\ WF_vars(HandleSignal)
    /\ WF_vars(ChildKilled)

\* ---------------------------------------------------------------- respawn scenario
\* orders for command 1 with runid 1: respawning, not respawning, forced down
RespawnOrders ==
    {OrdersMsg(TRUE, 0, <<Entry(1, 1, fq, ar)>>) : fq \in BOOLEAN, ar \in BOOLEAN}

HandleOrdersRespawn == HandleOrdersFrom(RespawnOrders, MaxRespawnStarts, SheriffIds)

NextRespawn ==
    \/ HandleOrdersRespawn
    \/ RespawnFiresOften
    \/ HandleSignal
    \/ ChildExits
    \/ Tick

SpecRespawn == Init /\ [][NextRespawn]_vars

\* ---------------------------------------------------------------- claims
\* signals sent to command c by the handler that just ran
SentTo(e, c) == {p \in e.sent : p[1] = c}

\* C1, first half: orders that carry the runid a running command was started
\* with, and no force_quit, send it no signal and make no start attempt
C1_KeepIsQuiet ==
    (ev'.kind = "orders" /\ ev'.arg = RunOrders(RunK) /\ mi[1].actual_runid = RunK)
        => (SentTo(ev', 1) = {} /\ 1 \notin ev'.attempts /\ ev'.reaped = {})

\* C1, one stop: the child is reaped only while the command has the old runid,
\* and only after the orders asked for the new one
C1_OneStop ==
    1 \in ev'.reaped => (mi[1].actual_runid = RunK /\ mi[1].first_kill_time # 0)

\* C1, one start after the stop: a start is attempted only for the stopped
\* command with the old runid, it forks, and leaves the command with the new runid
C1_OneStart ==
    1 \in ev'.attempts
        => /\ mi[1].actual_runid = RunK /\ cmd[1].pid = 0 /\ mi[1].first_kill_time # 0
           /\ 1 \in ev'.forked /\ mi'[1].actual_runid = RunK + 1

Accepted(o) == o.for_me /\ o.age <= PROCMAN_MAX_MESSAGE_AGE_SEC /\ ~exiting

\* the entries of the orders message o for command c
EntriesFor(o, c) == {o.cmds[i] : i \in {j \in 1..Len(o.cmds) : o.cmds[j].sheriff_id = c}}

\* C2: an orders message applied a second time, with no other event in
\* between, takes no action: no record is created, changed or removed, no
\* command is started, no signal is sent and no PM_INFO is published
C2_SecondApplicationIdle ==
    [][(ev.kind = "orders" /\ ev'.kind = "orders" /\ ev'.arg = ev.arg)
          => /\ ev'.created = {} /\ ev'.destroyed = {}
             /\ ev'.attempts = {} /\ ev'.sent = {} /\ ev'.info = 0
             /\ mi' = mi /\ cmd' = cmd
             /\ commands_' = commands_ /\ pm_commands' = pm_commands]_vars

\* C3: orders with desired_runid 0 and no force_quit never stop a running
\* command and never change a command's actual_runid
C3_RunidZeroKeepsRunid ==
    [][\A c \in commands_ \ freed :
          (/\ ev'.kind = "orders" /\ Accepted(ev'.arg)
           /\ \E e \in EntriesFor(ev'.arg, c) : e.desired_runid = 0 /\ ~e.force_quit)
          => /\ cmd[c].pid # 0 => SentTo(ev', c) = {}
             /\ mi'[c].actual_runid = mi[c].actual_runid]_vars

\* C4: a record is destroyed only when the orders no longer contain it and its
\* child is not running; a record the current orders contain is never destroyed
C4_DestroyedOnlyWhenOmitted ==
    \A c \in ev.destroyed : c \notin ev.listed /\ cmd[c].pid = 0

\* C5: between event handlers, the deputy's table commands_ holds exactly the
\* commands the process manager owns
C5_TablesAgree == commands_ = pm_commands

\* C8: a respawn timer is pending only for a command with auto_respawn that
\* should be running, and only while the deputy is not shutting down
C8_TimerOnlyWhenWanted ==
    \A c \in commands_ \ freed :
        (timers[c].cur \/ timers[c].old > 0)
            => (mi[c].auto_respawn /\ ~mi[c].should_be_stopped /\ ~exiting)

\* C9: after a start attempt that failed, or the reaping of a child whose exec
\* failed, a diagnostic for the command was published, the deputy keeps
\* running and, if the command respawns and should run, a respawn is pending
C9_FailureReportedAndRetried ==
    \A c \in SheriffIds :
        (\/ c \in ev.attempts \ ev.forked
         \/ c \in ev.reaped /\ cmd[c].exit_status = EXEC_FAILED_STATUS)
        => /\ \E w \in {"couldnt_start", "child_output"} : <<c, w>> \in ev.out
           /\ mainloop = "run"
           /\ (c \notin freed /\ mi[c].auto_respawn /\ ~mi[c].should_be_stopped
                   /\ ~exiting) => timers[c].cur

\* the commands whose child the deputy holds a pid for
RunningNow == {c \in commands_ : cmd[c].pid # 0}

\* the handler that just ran handled a shutdown signal
ShutdownHandled == ev'.kind = "signal" /\ ev'.arg # SIGCHLD

\* C6, stop: the handler of a shutdown signal sends every running command its
\* own stop_signal and starts the shutdown
C6_StopAll ==
    ShutdownHandled
        => /\ \A c \in RunningNow : <<c, mi[c].stop_signal>> \in ev'.sent
           /\ exiting'

\* C6, quit timer: it is set for the longest stop_time_allowed of the running
\* commands, and for one second at least
C6_QuitTimerSet ==
    ShutdownHandled
        => quit_timers' = quit_timers \cup
               {now + Max(MIN_QUIT_TIME_ALLOWED,
                          SetMax({mi[c].stop_time_allowed : c \in RunningNow}))}

\* C6, kill: when a quit timer fires, at its deadline, every command still
\* running is sent SIGKILL and the main loop is stopped
C6_KillAll ==
    ev'.kind = "quit"
        => /\ ev'.arg = now
           /\ \A c \in RunningNow : <<c, SIGKILL>> \in ev'.sent
           /\ mainloop' = "quit"

\* C6, all dead: a signal handler that finds every command dead during the
\* shutdown stops the main loop
C6_QuitWhenAllDead ==
    (ev'.kind = "signal" /\ exiting' /\ \A c \in pm_commands' : cmd'[c].pid = 0)
        => mainloop' = "quit"

\* C6, only then: the main loop stops only during the shutdown, when all
\* commands are dead or the quit timer fired
C6_QuitOnlyWhenDone ==
    mainloop = "quit"
        => exiting /\ (ev.kind = "quit" \/ \A c \in pm_commands : cmd[c].pid = 0)

C7_BackoffInRange ==
    \A c \in commands_ \ freed :
        /\ mi[c].respawn_backoff >= MIN_RESPAWN_DELAY_MS
        /\ mi[c].respawn_backoff <= MAX_RESPAWN_DELAY_MS
        /\ mi[c].last_start_time = 0 => mi[c].respawn_backoff = MIN_RESPAWN_DELAY_MS

\* a start found the backoff at the cap and left it there
C7_Witness ==
    /\ ev.attempts = {1}
    /\ mi[1].respawn_backoff = MAX_RESPAWN_DELAY_MS
    /\ nstarts = MaxRespawnStarts

EntryWithId(c, id, force_quit) ==
    [Entry(c, 1, force_quit, FALSE) EXCEPT !.command_id = id]

\* orders that list command 1, or commands 1 and 2, under ids of their choice
IdOrders ==
    {OrdersMsg(TRUE, 0, <<EntryWithId(1, id, fq)>>) :
        id \in SheriffIds, fq \in BOOLEAN}
    \cup {OrdersMsg(TRUE, 0, <<EntryWithId(1, id1, fq), EntryWithId(2, id2, FALSE)>>) :
        id1 \in SheriffIds, id2 \in SheriffIds, fq \in BOOLEAN}

HandleOrdersIds == HandleOrdersFrom(IdOrders, MaxStarts, {})

\* a child ends by itself with status 0, or by a signal it got
ChildExitsCleanly == ChildExitsWith({0})

NextIds ==
    \/ HandleOrdersIds
    \/ HandleSignal
    \/ ChildExitsCleanly

SpecIds == Init /\ [][NextIds]_vars

\* C11: no two command records of the deputy share a command_id
C11_UniqueCommandIds ==
    \A c, d \in commands_ \ freed : c # d => mi[c].id # mi[d].id

\* ---------------------------------------------------------------- descendants
\* the processes below the children change to ps; the deputy does not run
ProcsBecome(ps, kind) ==
    /\ mainloop = "run"
    /\ procs' = ps
    /\ ev' = Log(kind, 0)
    /\ UNCHANGED <<commands_, mi, freed, pm_commands, cmd, timers, exiting,
                   quit_timers, mainloop, child, wstatus, delivered, fd_open, pty, prep,
                   net, loop, sigpipe, now, nstarts>>

\* a running child, the leader of the session forkpty gave it, or one of its
\* descendants forks: the new process inherits process group and session
DescForks ==
    \E p \in DescPids :
        /\ ~procs[p].alive
        /\ \/ \E c \in SheriffIds :
                /\ child[c] = "alive"
                /\ ProcsBecome([procs EXCEPT ![p] =
                       [alive |-> TRUE, comm_words |-> 1, ppid |-> PidOf(c),
                        pgrp |-> PidOf(c), session |-> PidOf(c)]], "fork")
           \/ \E q \in DescPids :
                /\ procs[q].alive
                /\ ProcsBecome([procs EXCEPT ![p] =
                       [procs[q] EXCEPT !.ppid = q]], "fork")

\* a descendant calls setpgid(0, 0)
DescSetsGroup ==
    \E p \in DescPids :
        /\ procs[p].alive /\ procs[p].pgrp # p
        /\ ProcsBecome([procs EXCEPT ![p].pgrp = p], "setpgid")

\* a descendant executes a program whose file name holds a space
DescExecs ==
    \E p \in DescPids :
        /\ procs[p].alive /\ procs[p].comm_words = 1
        /\ ProcsBecome([procs EXCEPT ![p].comm_words = 2], "exec")

\* a descendant ends
DescExits ==
    \E p \in DescPids :
        /\ procs[p].alive
        /\ ProcsBecome(Killed(procs, {p}), "descendant_exit")

\* orders that tell command 1 to run or to stop
KillOrders == {OrdersMsg(TRUE, 0, <<Entry(1, 1, fq, FALSE)>>) : fq \in BOOLEAN}

HandleOrdersKill == HandleOrdersFrom(KillOrders, MaxStarts, {})

NextKill ==
    \/ HandleOrdersKill
    \/ HandleSignal
    \/ ChildExitsCleanly
    \/ DescForks
    \/ DescSetsGroup
    \/ DescExecs
    \/ DescExits

SpecKill == Init /\ [][NextKill]_vars

\* C12: the descendants_to_kill of a command whose child has been reaped is
\* empty, so a later run of the command starts with an empty set
C12_DrainedAtReap ==
    \A c \in pm_commands : cmd[c].pid = 0 => cmd[c].descendants_to_kill_ = {}

\* the descendants of command c that the reap of its child is to kill
OrphansOf(c) ==
    {p \in cmd[c].descendants_to_kill_ :
        procs[p].alive /\ procs[p].ppid = InitPid
            /\ procs[p].pgrp = PidOf(c) /\ procs[p].session = PidOf(c)}

\* C13: the reap of a child sends SIGKILL to the orphans of that child among
\* the command's descendants_to_kill, and to no other process
C13_ReapKillsOrphans ==
    [][(ev'.kind = "signal" /\ ev'.arg = SIGCHLD)
          => {x[1] : x \in {y \in ev'.sent_desc : y[2] = SIGKILL}}
                = UNION {OrphansOf(c) : c \in ev'.reaped}]_vars

\* ---------------------------------------------------------------- stale orders
\* orders of an age just over the limit that list command 1 or commands 1 and
\* 2, for this deputy or another, and orders for both at the limit
StaleOrders ==
    {OrdersMsg(fm, PROCMAN_MAX_MESSAGE_AGE_SEC + 1, l) :
        fm \in BOOLEAN,
        l \in {<<Entry(1, 1, FALSE, FALSE)>>,
               <<Entry(1, 1, FALSE, FALSE), Entry(2, 1, FALSE, FALSE)>>}}
    \cup {OrdersMsg(TRUE, PROCMAN_MAX_MESSAGE_AGE_SEC,
                    <<Entry(1, 1, FALSE, FALSE), Entry(2, 1, FALSE, FALSE)>>)}

HandleOrdersStale == HandleOrdersFrom(StaleOrders, MaxStarts, {})

NextStale ==
    \/ HandleOrdersStale
    \/ HandleSignal
    \/ ChildExitsCleanly
    \/ ShutdownSignal

SpecStale == Init /\ [][NextStale]_vars

\* the step is the handling of orders that are too old
StaleHandled ==
    ev'.kind = "orders" /\ ev'.arg.age > PROCMAN_MAX_MESSAGE_AGE_SEC

\* the step changes no command record, starts, stops and removes nothing,
\* publishes no PM_INFO, and publishes one diagnostic per command listed
DroppedWithDiagnostics ==
    /\ mi' = mi /\ cmd' = cmd /\ commands_' = commands_ /\ freed' = freed
    /\ pm_commands' = pm_commands /\ timers' = timers /\ child' = child
    /\ delivered' = delivered /\ fd_open' = fd_open /\ pty' = pty /\ exiting' = exiting
    /\ prep' = prep
    /\ ev'.info = 0 /\ ev'.sent = {} /\ ev'.attempts = {} /\ ev'.destroyed = {}
    /\ ev'.nout = Len(ev'.arg.cmds)
    /\ ev'.out = {<<id, "stale">> : id \in OrderIds(ev'.arg)}

\* C14 as stated: every orders message that is too old is dropped with one
\* diagnostic per command listed
C14_StaleAlwaysReported ==
    [][StaleHandled => DroppedWithDiagnostics]_vars

\* C14: an orders message addressed to this deputy that is too old and
\* arrives while the deputy is not shutting down is dropped with one
\* diagnostic per command listed; orders at the age limit are not dropped
C14_StaleDropped ==
    [][/\ (StaleHandled /\ ev'.arg.for_me /\ ~exiting) => DroppedWithDiagnostics
       /\ (ev'.kind = "orders" /\ ev'.arg.for_me /\ ~exiting /\ commands_ = {}
             /\ ev'.arg.age = PROCMAN_MAX_MESSAGE_AGE_SEC)
            => ev'.created = OrderIds(ev'.arg)]_vars

\* stale orders that list two commands were dropped while command 1 runs
C14_Witness ==
    /\ ev.kind = "orders" /\ ev.arg.age > PROCMAN_MAX_MESSAGE_AGE_SEC
    /\ ev.arg.for_me /\ ~exiting /\ ev.nout = 2
    /\ cmd[1].pid # 0


\* ---------------------------------------------------------------- discovery: the deputy starts
\* the messages of deputies and sheriffs that the model does not follow: a
\* like-named deputy with another pid, and a deputy of another name
Foreign ==
    {Msg(1, chan, host, 99) : chan \in {"PM_DISCOVER", "PM_INFO"}, host \in Hosts}

\* deputy d has run a handler with outcome r: its record, and what it has
\* published.  A deputy that has exited receives nothing more.
NetAfter(n, d, r) ==
    LET m == Publish([n EXCEPT !.dep[d] = r.dp], d, IF r.dp.status = "run" THEN r.pub ELSE {})
    IN [m EXCEPT !.msgs = {x \in @ : m.dep[x.to].status = "run"}]

\* the commands of the deputy in a step of deputy d: transmit_proc_info when
\* it is deputy 1 that publishes its status
DeputyStep(kind, arg, d, r) ==
    IF d = 1 /\ "PM_INFO" \in r.pub
    THEN \E I \in StartOracles({}, {}) :
            \E D \in {transmit_proc_info(Begin(kind, arg), I)} : Apply(D)
    ELSE Apply(Begin(kind, arg))

\* lcm_handle: a message in flight is dispatched to the handler subscribed
\* to its channel, or dropped when there is none
Receive ==
    /\ mainloop = "run"
    /\ \E m \in net.msgs :
         LET dp == net.dep[m.to]
             r == IF m.chan = "PM_DISCOVER" /\ dp.discovery_subs
                  THEN procman_deputy_discovery_received(dp, m, net.clock_ms)
                  ELSE IF m.chan = "PM_INFO" /\ dp.info2_subs
                  THEN procman_deputy_info2_received(dp, m, net.clock_ms)
                  ELSE [dp |-> dp, pub |-> {}]
         IN /\ net' = NetAfter([net EXCEPT !.msgs = @ \ {m}], m.to, r)
            /\ DeputyStep("receive", m, m.to, r)
    /\ UNCHANGED <<sigpipe, now, loop>>

\* the 200 ms source of discovery_timeout is dispatched
DiscoveryTimer ==
    /\ mainloop = "run"
    /\ \E d \in DeputyIds :
         /\ net.dep[d].status = "run"
         /\ net.dep[d].discovery_due = net.clock_ms
         /\ \E r \in {discovery_timeout(net.dep[d], net.clock_ms)} :
              /\ net' = NetAfter(net, d, r)
              /\ DeputyStep("discovery_timeout", d, d, r)
    /\ UNCHANGED <<sigpipe, now, loop>>

\* the 1000 ms source of one_second_timeout is dispatched
StatusTimer ==
    /\ mainloop = "run"
    /\ \E d \in DeputyIds :
         /\ net.dep[d].status = "run"
         /\ net.dep[d].status_due = net.clock_ms
         /\ \E r \in {one_second_timeout(net.dep[d], net.clock_ms)} :
              /\ net' = NetAfter(net, d, r)
              /\ DeputyStep("one_second_timeout", d, d, r)
    /\ UNCHANGED <<sigpipe, now, loop>>

\* time passes once the deputies have dispatched what was due: the sources
\* that have expired and the messages that have arrived
ClockAdvance ==
    /\ mainloop = "run"
    /\ net.clock_ms < MaxClockSteps * ClockStepMs
    /\ net.msgs = {}
    /\ \A d \in DeputyIds :
         net.dep[d].status = "run" =>
            net.clock_ms \notin {net.dep[d].discovery_due, net.dep[d].status_due}
    /\ net' = [net EXCEPT !.clock_ms = @ + ClockStepMs]
    /\ Apply(Begin("clock", 0))
    /\ UNCHANGED <<sigpipe, now, loop>>

\* a message of another deputy or of a sheriff arrives at deputy 1
ForeignMessage ==
    /\ mainloop = "run"
    /\ net.dep[1].status = "run"
    /\ \E m \in Foreign \ net.msgs : net' = [net EXCEPT !.msgs = @ \cup {m}]
    /\ Apply(Begin("foreign", 0))
    /\ UNCHANGED <<sigpipe, now, loop>>

\* orders for one command, sent whether the deputy listens or not
DiscoveryOrders ==
    {OrdersMsg(TRUE, 0, <<Entry(1, 1, FALSE, FALSE)>>)}

HandleOrdersDiscovery == HandleOrdersFrom(DiscoveryOrders, MaxStarts, {})

InitDiscovery == StateIs(Fresh) /\ sigpipe = <<>> /\ net = StartedNet /\ loop = EmptyLoop

NextDiscovery ==
    \/ Receive
    \/ DiscoveryTimer
    \/ StatusTimer
    \/ ClockAdvance
    \/ ForeignMessage
    \/ HandleOrdersDiscovery

SpecDiscovery == InitDiscovery /\ [][NextDiscovery]_vars

\* deputy d is in discovery mode: the first 1500 ms after its start
InDiscovery(d) ==
    /\ net.dep[d].status = "run"
    /\ net.clock_ms < net.dep[d].deputy_start_time + DISCOVERY_TIME_MS

C16_QuietBeforeActive ==
    [][(net.dep[1].status = "run" /\ ~net.dep[1].orders2_subs
            /\ ~net'.dep[1].orders2_subs) =>
         (ev'.kind # "orders" /\ ev'.created = {} /\ ev'.attempts = {}
            /\ ev'.info = 0)]_vars

\* the PM_DISCOVER messages of deputy d that are in flight
DiscoverOf(n, d) ==
    {m \in n.msgs : m.chan = "PM_DISCOVER" /\ m.host = Hostname
                       /\ m.nonce = n.dep[d].deputy_pid}

\* C19: the deputy goes over to Active mode 1500 ms after its start, in one
\* step that drops the subscription to info, subscribes to orders, starts
\* the status timer, publishes one status and stops the discovery timer;
\* it never leaves Active mode, publishes no PM_DISCOVER in it, and answers
\* every discovery message with one status.
C19_ActiveAt1500 ==
    [][/\ (~net.dep[1].orders2_subs /\ net'.dep[1].orders2_subs) =>
            /\ net.clock_ms = net.dep[1].deputy_start_time + DISCOVERY_TIME_MS
            /\ ~net'.dep[1].info2_subs
            /\ net'.dep[1].status_due = net.clock_ms + STATUS_PERIOD_MS
            /\ net'.dep[1].discovery_due = NoTimer
            /\ ev'.info = 1
       /\ net.dep[1].orders2_subs =>
            /\ net'.dep[1].orders2_subs
            /\ DiscoverOf(net', 1) \subseteq DiscoverOf(net, 1)
            /\ (ev'.kind = "receive" /\ ev'.arg.to = 1 /\ ev'.arg.chan = "PM_DISCOVER")
                  => ev'.info = 1]_vars

\* ---------------------------------------------------------------- discovery: two deputies of one name
\* a second deputy of the same name is started while deputy 1 runs
StartSecond ==
    /\ mainloop = "run"
    /\ net.dep[1].status = "run" /\ net.dep[2].status = "off"
    /\ \E r \in {StartDeputy(2, net.clock_ms)} : net' = NetAfter(net, 2, r)
    /\ Apply(Begin("start", 2))
    /\ UNCHANGED <<sigpipe, now, loop>>

NextConflict ==
    \/ Receive
    \/ DiscoveryTimer
    \/ StatusTimer
    \/ ClockAdvance
    \/ StartSecond

SpecConflict == InitDiscovery /\ [][NextConflict]_vars

\* C17: of two deputies of one name started within 1500 ms of each other,
\* the one started later never reaches Active mode, and when it exits it
\* exits with code 1.
C17_LaterExits ==
    (net.dep[2].status # "off"
        /\ net.dep[2].deputy_start_time - net.dep[1].deputy_start_time < DISCOVERY_TIME_MS) =>
       /\ ~net.dep[2].orders2_subs
       /\ net.dep[2].status = "exited" => net.dep[2].exit_code = 1

\* C18: a deputy that was running, in discovery or in Active mode, when
\* another deputy of its name was started is never made to exit.
C18_EarlierKeepsRunning ==
    net.dep[2].status # "off" => net.dep[1].status = "run"


\* ---------------------------------------------------------------- event loop: iterations
\* the timers whose deadline has passed when dt more has passed
DueTimers(L, dt) ==
    {tm \in L.active_timers_ : L.timer[tm].deadline_ < L.now_ + dt}

\* one iteration of EventLoop::Run, the callbacks of the sockets having the
\* effects of SE and those of the timers the effects of TE
IterateWith(SE, TE, UB, DT) ==
    /\ ~loop.quit_ /\ ~loop.crashed
    /\ \E ready \in SUBSET {loop.sockets_[i] : i \in 1 .. Len(loop.sockets_)},
          ub \in UB, up \in BOOLEAN,
          dt \in {d \in DT : loop.now_ + d <= MaxLoopTime} :
         \E eff \in [ready -> SE], teff \in [DueTimers(loop, dt) -> TE] :
            loop' = IterateOnce(loop, ready, eff, teff, ub, up, dt)
    /\ Apply(Begin("iterate", 0))
    /\ UNCHANGED <<sigpipe, now, net>>

Iterate == IterateWith(Effects, {Effect("none", 0)}, BOOLEAN, {0, 1})

\* the program registers a socket between two iterations
Register ==
    /\ ~loop.quit_ /\ ~loop.crashed
    /\ loop.made < Cardinality(NotifierIds)
    /\ loop' = [AddSocket(loop) EXCEPT !.calls = <<>>, !.polled = {}, !.dropped = {}]
    /\ Apply(Begin("register", 0))
    /\ UNCHANGED <<sigpipe, now, net>>

\* the program drops the handle of a socket between two iterations
Unregister ==
    /\ ~loop.quit_ /\ ~loop.crashed
    /\ \E i \in 1 .. Len(loop.sockets_), ub \in BOOLEAN :
         loop' = DropNotifier([loop EXCEPT !.calls = <<>>, !.polled = {}, !.dropped = {}],
                              loop.sockets_[i], ub)
    /\ Apply(Begin("unregister", 0))
    /\ UNCHANGED <<sigpipe, now, net>>

NextLoop == Iterate \/ Register \/ Unregister

SpecLoop == Init /\ [][NextLoop]_vars

\* C20: in one iteration every socket callback runs before every timer
\* callback, and the socket callbacks run in the order of registration of
\* their sockets, each at most once.
C20_SocketsBeforeTimers ==
    \A i, j \in 1 .. Len(loop.calls) :
       i < j =>
          /\ loop.calls[i].kind = "timer" => loop.calls[j].kind = "timer"
          /\ (loop.calls[i].kind = "socket" /\ loop.calls[j].kind = "socket") =>
                loop.calls[i].id < loop.calls[j].id

\* an iteration has called two sockets and a timer, and has skipped a
\* ready socket whose handle was dropped by a callback
C20_Witness ==
    /\ Len(loop.calls) >= 3
    /\ loop.calls[1].kind = "socket" /\ loop.calls[2].kind = "socket"
    /\ loop.calls[Len(loop.calls)].kind = "timer"
    /\ \E n \in loop.polled :
         \A i \in 1 .. Len(loop.calls) :
            ~(loop.calls[i].kind = "socket" /\ loop.calls[i].id = n)


\* ---------------------------------------------------------------- event loop: timers
\* a loop with one socket, timers 1 and 2 active and timer 3 added inactive
TimerLoop == AddTimer(AddSocket(EmptyLoop), 3, FALSE)

InitTimers == StateIs(Fresh) /\ sigpipe = <<>> /\ net = ActiveNet /\ loop = TimerLoop

\* one iteration in which the callbacks of the timers start, stop and drop
\* timers and call Quit, that of the socket starts a timer or calls Quit,
\* and in which up to two clock steps pass
IterateTimers ==
    IterateWith({e \in Effects : e.op \in {"none", "quit", "start"}}, TimerEffects,
                {FALSE}, {0, 1, 2})

SpecTimers == InitTimers /\ [][IterateTimers]_vars

\* the timers that are started and whose deadline has passed
Overdue ==
    {tm \in TimerIds : /\ loop.timer[tm].exists /\ loop.timer[tm].active_
                       /\ loop.timer[tm].deadline_ < loop.now_}

\* C21: a timer that is started fires once its deadline has passed, so
\* that no started timer is overdue when an iteration ends, timers with
\* equal deadlines included; the timers of one drain fire in nondecreasing
\* order of their deadlines.
C21_DeadlineOrder ==
    /\ (~loop.quit_ /\ ~loop.crashed) => Overdue = {}
    /\ \A i, j \in 1 .. Len(loop.calls) :
          (i < j /\ loop.calls[i].kind = "timer" /\ loop.calls[j].kind = "timer") =>
             loop.calls[i].deadline <= loop.calls[j].deadline

\* C22: once a callback has called Quit no timer callback is invoked, not
\* even that of a timer that is due in the same drain, and Run makes no
\* further iteration.
C22_NoTimerAfterQuit ==
    [][/\ loop.quit_ => loop' = loop
       /\ \A i \in 1 .. Len(loop'.calls) :
             loop'.calls[i].kind = "timer" => ~loop'.calls[i].after_quit]_vars

\* a timer callback has called Quit while another timer was due
C22_Witness ==
    /\ loop.quit_ /\ loop.calls # <<>>
    /\ loop.calls[Len(loop.calls)].kind = "timer"
    /\ ~loop.calls[Len(loop.calls)].after_quit
    /\ \E tm \in loop.active_timers_ : loop.timer[tm].deadline_ < loop.now_

\* C23: a single-shot timer fires exactly once for each Start: once its
\* deadline has passed its callback has run, and after the callback it is
\* inactive, in the inactive set, and its callback does not run again.
C23_SingleShotOnce ==
    \A tm \in TimerIds :
       (SingleShot(tm) /\ loop.timer[tm].exists) =>
          /\ loop.timer[tm].fired <= 1
          /\ (~loop.quit_ /\ ~loop.crashed) => tm \notin Overdue
          /\ loop.timer[tm].fired = 1 =>
                (~loop.timer[tm].active_ /\ tm \in loop.inactive_timers_)

\* C24: a repeating timer that has fired in an iteration and was neither
\* stopped nor dropped is armed again with deadline = now + interval, so
\* that it is never overdue when an iteration ends; the callback of a timer
\* whose handle was dropped is not invoked.
C24_RepeatingUntilDropped ==
    /\ \A tm \in TimerIds :
          (~SingleShot(tm) /\ loop.timer[tm].exists /\ loop.timer[tm].active_
              /\ ~loop.quit_ /\ ~loop.crashed) =>
             /\ tm \notin Overdue
             /\ (\E i \in 1 .. Len(loop.calls) :
                    loop.calls[i].kind = "timer" /\ loop.calls[i].id = tm) =>
                   (tm \in loop.active_timers_
                      /\ loop.timer[tm].deadline_ = loop.now_ + Interval(tm))
    /\ \A i \in 1 .. Len(loop.calls) : ~loop.calls[i].gone

\* the number of times the callback of notifier n was invoked in the
\* iteration
TimesCalled(n) ==
    Cardinality({i \in 1 .. Len(loop.calls) :
                    loop.calls[i].kind = "socket" /\ loop.calls[i].id = n})

\* C25: the callback of a notifier whose handle was dropped is not invoked;
\* the callbacks of the other notifiers that were ready in the iteration are
\* invoked exactly once each; the drop of a notifier that is not queued
\* changes nothing else, so that the loop goes on.
C25_DroppedNotifierSkipped ==
    /\ \A i \in 1 .. Len(loop.calls) : ~loop.calls[i].gone
    /\ \A n \in loop.polled \ loop.dropped : TimesCalled(n) = 1
    /\ ~loop.crashed


\* ---------------------------------------------------------------- child output
\* the most bytes the model lets wait in a pty
MaxPtyBytes == 2048

\* the sizes of the writes of a child: one that a single read() takes whole,
\* and one that it does not
WriteSizes == {ReadMax, BufSize}

\* a running child writes to its terminal
ChildWrites ==
    /\ mainloop = "run"
    /\ \E c \in SheriffIds : \E w \in WriteSizes :
         /\ child[c] = "alive" /\ fd_open[c]
         /\ pty[c] + w <= MaxPtyBytes
         /\ pty' = [pty EXCEPT ![c] = @ + w]
    /\ ev' = Log("write", 0)
    /\ UNCHANGED <<commands_, mi, freed, pm_commands, cmd, timers, exiting,
                   quit_timers, mainloop, child, wstatus, delivered, fd_open, prep,
                   procs, net, loop, sigpipe, now, nstarts>>

\* the watch of a command's pty is dispatched: pipe_data_ready with G_IO_IN
PipeReadable ==
    /\ mainloop = "run"
    /\ \E c \in commands_ \ freed :
         /\ mi[c].stdout_ioc /\ fd_open[c] /\ pty[c] > 0
         /\ Apply(pipe_data_ready(Begin("output", c), c))
    /\ UNCHANGED <<sigpipe, now, net, loop>>

\* the deputy runs one command whose child writes and exits
NextOutput ==
    \/ HandleOrdersDiscovery
    \/ ChildWrites
    \/ PipeReadable
    \/ ChildExits
    \/ HandleSignal

SpecOutput == Init /\ [][NextOutput]_vars

\* C26: every byte a child wrote to its pty is read and published before
\* the master descriptor is closed: no pty is closed with bytes left in it
C26_NoOutputLost ==
    \A c \in SheriffIds : ~fd_open[c] => pty[c] = 0


\* ---------------------------------------------------------------- PM_INFO
\* the step changes the status of a managed command: a command is started or
\* reaped, or a record is added or removed
StatusChanges ==
    \/ commands_' # commands_
    \/ \E c \in SheriffIds : (cmd[c].pid = 0) # (cmd'[c].pid = 0)

\* C27: a handler that changes the status of a command and leaves the deputy
\* running has published a PM_INFO message before it ends
C27_InfoOnStatusChange ==
    [][StatusChanges /\ mainloop' = "run" => ev'.info >= 1]_vars


\* ---------------------------------------------------------------- process manager
\* A program that uses a Procman of its own: it adds commands, starts them,
\* reaps them and removes them, in any order.
\* Procman::AddCommand: a new ProcmanCommand is appended to commands_
AddCommand(Din, c, exec_str, cmd_id) ==
    ByValue(Din, LAMBDA D :
    [D EXCEPT !.pm_commands = @ \cup {c},
              !.cmd[c] = NewCmd(exec_str, cmd_id)])

PmAdd ==
    /\ mainloop = "run"
    /\ \E c \in SheriffIds \ pm_commands :
         Apply(AddCommand(Begin("add", c), c, 1, c))
    /\ UNCHANGED <<sigpipe, now, net, loop>>

PmStart ==
    /\ mainloop = "run"
    /\ \E c \in pm_commands : \E fork_ok \in BOOLEAN :
         Apply(StartCommand(Begin("start", c), c, fork_ok, JunkFd).D)
    /\ UNCHANGED <<sigpipe, now, net, loop>>

PmReap ==
    /\ mainloop = "run"
    /\ \E ord \in {<<1, 2>>, <<2, 1>>} :
         Apply(CheckForDeadChildren(Begin("reap", 0), ord).D)
    /\ UNCHANGED <<sigpipe, now, net, loop>>

\* RemoveCommand is called with any command, owned or not
PmRemove ==
    /\ mainloop = "run"
    /\ \E c \in SheriffIds : Apply(RemoveCommand(Begin("remove", c), c))
    /\ UNCHANGED <<sigpipe, now, net, loop>>

NextProcman ==
    \/ PmAdd
    \/ PmStart
    \/ ChildExits
    \/ PmReap
    \/ PmRemove

SpecProcman == Init /\ [][NextProcman]_vars

Chars == {"\\", "$", "{", "}", "A", "1", " ", "'", "="}

\* the longest exec string of the model
MaxStrLen == 4

Strings == UNION {[1 .. n -> Chars] : n \in 0 .. MaxStrLen}

\* the letters and digits of IsValidVariableCharacter that are in Chars
valid_start == {"A"}
valid_follow == {"1"}

\* VariableExpander::IsValidVariableCharacter; pos is the number of characters
\* of the name read so far
IsValidVariableCharacter(c, pos) ==
    c \in valid_start \/ (pos = 0 /\ c \in valid_follow)

\* the deputy's variable table and the environment of the process
Variables == (<<"A">> :> <<"v">>)
Environ == (<<"A">> :> <<"e">>) @@ (<<"A", "1">> :> <<"w">>)

\* variables_->find(varname), else getenv(varname)
HasValue(variables, varname) ==
    varname \in DOMAIN variables \/ varname \in DOMAIN Environ
ValueOf(variables, varname) ==
    IF varname \in DOMAIN variables THEN variables[varname] ELSE Environ[varname]

\* the while loop of ParseVariable: the length of the name that starts at
\* input[from], n characters of it already read
RECURSIVE VarNameLen(_, _, _)
VarNameLen(input, from, n) ==
    IF from + n <= Len(input) /\ IsValidVariableCharacter(input[from + n], n)
    THEN VarNameLen(input, from, n + 1)
    ELSE n

\* VariableExpander::ParseVariable, called with the '$' at input[p - 1] read;
\* pos is the next character to read when it returns
ParseVariable(input, variables, p, out) ==
    IF p > Len(input) THEN [pos |-> p, out |-> out \o <<"$">>]
    ELSE
      LET has_braces == input[p] = "{"
          varname_start == IF has_braces THEN p + 1 ELSE p
          varname_len == VarNameLen(input, varname_start, 0)
          after == varname_start + varname_len
          took == has_braces /\ after <= Len(input)
          pos == IF took THEN after + 1 ELSE after
          braces_ok == ~has_braces \/ (took /\ input[after] = "}")
          varname == SubSeq(input, varname_start, after - 1)
          ok == varname_len > 0 /\ braces_ok /\ HasValue(variables, varname)
      IN [pos |-> pos,
          out |-> out \o (IF ok THEN ValueOf(variables, varname)
                          ELSE SubSeq(input, p - 1, pos - 1))]

\* VariableExpander::Process from input[pos] on.  After a backslash the next
\* character is read and c, the backslash, is put.
RECURSIVE ExpandFrom(_, _, _, _)
ExpandFrom(input, variables, pos, out) ==
    IF pos > Len(input) THEN out
    ELSE
      LET c == input[pos]
      IN IF c = "\\"
         THEN IF pos + 1 <= Len(input)
              THEN ExpandFrom(input, variables, pos + 2, out \o <<c>>)
              ELSE ExpandFrom(input, variables, pos + 1, out \o <<"\\">>)
         ELSE IF c = "$"
         THEN LET r == ParseVariable(input, variables, pos + 1, out)
              IN ExpandFrom(input, variables, r.pos, r.out)
         ELSE ExpandFrom(input, variables, pos + 1, out \o <<c>>)

ExpandVariables(input, variables) == ExpandFrom(input, variables, 1, <<>>)

isspace(c) == c = " "

\* the loop "while (NextChar() && std::isspace(cur_char_))": the place of the
\* first character from input[p] on that is not white space, Len(input) + 1
\* if there is none
RECURSIVE SkipSpace(_, _)
SkipSpace(input, p) ==
    IF p <= Len(input) /\ isspace(input[p]) THEN SkipSpace(input, p + 1) ELSE p

\* the do-while loop of ArgSeparator::ParseArg with cur_char_ = input[i]
RECURSIVE ArgBody(_, _, _, _, _)
ArgBody(input, i, quoted, quote_char, cur_arg_) ==
    LET c == input[i]
        escaped == c = "\\"
        opens == ~escaped /\ ~quoted /\ c \in {"'", "\""}
        closes == ~escaped /\ quoted /\ quote_char = c
        ends == ~escaped /\ ~quoted /\ isspace(c)
        arg == IF escaped
               THEN Append(cur_arg_, IF i + 1 <= Len(input) THEN input[i + 1] ELSE "\\")
               ELSE IF opens \/ closes THEN cur_arg_
               ELSE Append(cur_arg_, c)
        next == IF escaped /\ i + 1 <= Len(input) THEN i + 2 ELSE i + 1
    IN IF ends THEN [ok |-> TRUE, arg |-> cur_arg_, pos |-> i + 1]
       ELSE IF next > Len(input) THEN [ok |-> TRUE, arg |-> arg, pos |-> next]
       ELSE ArgBody(input, next, IF opens THEN TRUE ELSE IF closes THEN FALSE ELSE quoted,
                    IF opens THEN c ELSE quote_char, arg)

\* ArgSeparator::ParseArg from input[p] on.  HasChar() is asked after the
\* first character of the argument was read: there is no argument when
\* nothing follows that character.
ParseArg(input, p) ==
    LET first == SkipSpace(input, p)
    IN IF first + 1 > Len(input) THEN [ok |-> FALSE, arg |-> <<>>, pos |-> p]
       ELSE ArgBody(input, first, FALSE, "", <<>>)

\* ArgSeparator::Process
RECURSIVE SeparateFrom(_, _, _)
SeparateFrom(input, p, result_) ==
    LET r == ParseArg(input, p)
    IN IF r.ok THEN SeparateFrom(input, r.pos, Append(result_, r.arg)) ELSE result_

SeparateArgs(input) == SeparateFrom(input, 1, <<>>)

\* the place of the first '=' of arg, 0 if it has none
RECURSIVE IndexOfEquals(_, _)
IndexOfEquals(arg, i) ==
    IF i > Len(arg) THEN 0 ELSE IF arg[i] = "=" THEN i ELSE IndexOfEquals(arg, i + 1)

\* the loop of PrepareArgsAndEnvironment from args[i] on.  Split(arg, "=", 2)
\* returns one part when nothing follows the '=': parts[1] is then read past
\* the end of the vector.
RECURSIVE PrepareFrom(_, _, _, _, _)
PrepareFrom(args, variables, i, num_env_vars, P) ==
    IF i > Len(args) THEN P
    ELSE
      LET eq == IndexOfEquals(args[i], 1)
      IN IF i = num_env_vars + 1 /\ eq > 0
         THEN LET key == SubSeq(args[i], 1, eq - 1)
                  one_part == eq = Len(args[i])
                  env == {e \in P.environment : e[1] # key}
                           \cup {<<key, SubSeq(args[i], eq + 1, Len(args[i]))>>}
              IN PrepareFrom(args, variables, i + 1, num_env_vars + 1,
                             IF one_part THEN [P EXCEPT !.ub = TRUE]
                             ELSE [P EXCEPT !.environment = env])
         ELSE PrepareFrom(args, variables, i + 1, num_env_vars,
                          [P EXCEPT !.argv = Append(@, ExpandVariables(args[i], variables))])

\* ProcmanCommand::PrepareArgsAndEnvironment
PrepareArgsAndEnvironment(exec_str, variables) ==
    PrepareFrom(SeparateArgs(exec_str), variables, 1, 0,
                [NoPrep EXCEPT !.stage = "prepared", !.exec_str = exec_str])

\* an exec string is given
InitArgs ==
    /\ \E s \in Strings :
         StateIs([Fresh EXCEPT !.prep = [NoPrep EXCEPT !.stage = "input", !.exec_str = s]])
    /\ sigpipe = <<>> /\ net = ActiveNet /\ loop = EmptyLoop

\* the command's arguments are prepared from its exec string; after the read
\* past the end of parts the program crashes or goes on in a way the source
\* does not determine
Prepare ==
    /\ prep.stage = "input"
    /\ prep' = PrepareArgsAndEnvironment(prep.exec_str, Variables)
    /\ \E crash \in BOOLEAN :
         mainloop' = IF ~prep'.ub THEN mainloop
                     ELSE IF crash THEN "crashed" ELSE "undefined"
    /\ ev' = Log("prepare", 0)
    /\ UNCHANGED <<commands_, mi, freed, pm_commands, cmd, timers, exiting,
                   quit_timers, child, wstatus, delivered, fd_open, pty,
                   procs, net, loop, sigpipe, now, nstarts>>

\* the variables of the string are expanded
Expand ==
    /\ prep.stage = "input"
    /\ prep' = [prep EXCEPT !.stage = "expanded",
                            !.output = ExpandVariables(prep.exec_str, Variables)]
    /\ ev' = Log("expand", 0)
    /\ UNCHANGED <<commands_, mi, freed, pm_commands, cmd, timers, exiting,
                   quit_timers, mainloop, child, wstatus, delivered, fd_open, pty,
                   procs, net, loop, sigpipe, now, nstarts>>

NextArgs == Prepare \/ Expand

SpecArgs == InitArgs /\ [][NextArgs]_vars

\* strings of letters and digits only
Plain(s) == \A i \in 1 .. Len(s) : s[i] \in valid_start \cup valid_follow

\* NAME matches [A-Za-z_][A-Za-z0-9_]*
ValidName(s) == Len(s) > 0 /\ s[1] \in valid_start /\ Plain(s)

\* C29: an exec string that is letters and digits, then a backslash and a
\* '$', then letters and digits, is prepared to the one argument that has the
\* '$' in the place of the two and is otherwise the same
C29_EscapedDollarIsLiteral ==
    prep.stage = "prepared" =>
        \A k \in 1 .. Len(prep.exec_str) - 1 :
            LET before == SubSeq(prep.exec_str, 1, k - 1)
                after == SubSeq(prep.exec_str, k + 2, Len(prep.exec_str))
            IN (/\ prep.exec_str[k] = "\\" /\ prep.exec_str[k + 1] = "$"
                /\ Plain(before) /\ Plain(after))
                  => prep.argv = <<before \o <<"$">> \o after>>

\* C30: a string that is '$' and letters and digits, or that with braces
\* around the letters and digits, is expanded to the value of the name when
\* the name is valid and has a value, and is left as it is otherwise
C30_ValidNamesExpanded ==
    prep.stage = "expanded" =>
        \A name \in Strings :
            (Plain(name) /\ prep.exec_str \in {<<"$">> \o name, <<"$", "{">> \o name \o <<"}">>})
              => prep.output = IF ValidName(name) /\ HasValue(Variables, name)
                               THEN ValueOf(Variables, name)
                               ELSE prep.exec_str


\* ---------------------------------------------------------------- stop escalation
\* the signals the handler that just ran sent to the child of command c
SignalsTo(e, c) == {p[2] : p \in SentTo(e, c)}

\* C31: orders handled while the child of c runs send it nothing but its
\* stop signal, and record the time, when no stop signal was sent to this
\* child before; they send it nothing while the time is not past
\* first_kill_time + stop_time_allowed, and nothing but SIGKILL once it is;
\* and a child that was just started has first_kill_time 0
C31_StopEscalation ==
    [][ev'.kind = "orders" /\ mainloop' = "run" =>
         \A c \in commands_ \ freed :
            /\ cmd[c].pid # 0 =>
                 LET sent == SignalsTo(ev', c)
                     deadline == mi[c].first_kill_time + mi'[c].stop_time_allowed
                 IN /\ mi[c].first_kill_time = 0 =>
                         /\ sent \subseteq {mi'[c].stop_signal}
                         /\ sent # {} => mi'[c].first_kill_time = now
                    /\ (mi[c].first_kill_time # 0 /\ now <= deadline) => sent = {}
                    /\ (mi[c].first_kill_time # 0 /\ now > deadline) =>
                         sent \subseteq {SIGKILL}
            /\ c \in ev'.forked =>
                 mi'[c].first_kill_time = 0 /\ mi'[c].num_kills_sent = 0]_vars

\* the child of command 1 was sent its stop signal by earlier orders and is
\* now sent SIGKILL
C31_Witness ==
    /\ ev.kind = "orders" /\ <<1, SIGKILL>> \in ev.sent
    /\ mi[1].num_kills_sent = 1 /\ mi[1].first_kill_time # 0
    /\ now > mi[1].first_kill_time + mi[1].stop_time_allowed


\* ---------------------------------------------------------------- respawn and shutdown
\* orders for both commands, command 1 respawning or not, forced down or not
RespawnShutdownOrders ==
    {OrdersMsg(TRUE, 0, <<Entry(1, 1, fq, ar), Entry(2, 1, FALSE, FALSE)>>) :
        fq \in BOOLEAN, ar \in BOOLEAN}

HandleOrdersRespawnShutdown == HandleOrdersFrom(RespawnShutdownOrders, MaxStarts, {})

\* the deputy runs both commands, their children exit, the sheriff changes
\* its mind about command 1, and the deputy is told to shut down
NextRespawnShutdown ==
    \/ HandleOrdersRespawnShutdown
    \/ RespawnFires
    \/ HandleSignal
    \/ ChildExits
    \/ ShutdownSignal

SpecRespawnShutdown == InitQuit /\ [][NextRespawnShutdown]_vars

\* C32: a respawn timer that fires makes a start attempt only if the command
\* is then to respawn, is not to be stopped and the deputy is not shutting
\* down, and the attempt leaves actual_runid as it is
C32_RespawnOnlyIfStillWanted ==
    [][ev'.kind = "respawn" /\ ev'.arg \in ev'.attempts =>
         LET c == ev'.arg
         IN /\ mi[c].auto_respawn /\ ~mi[c].should_be_stopped /\ ~exiting
            /\ mi'[c].actual_runid = mi[c].actual_runid]_vars

\* the respawn timer of a command that is to respawn fired after the
\* shutdown began, and nothing was started
C32_Witness ==
    /\ ev.kind = "respawn" /\ ev.attempts = {} /\ exiting
    /\ mi[ev.arg].auto_respawn /\ ~mi[ev.arg].should_be_stopped
    /\ cmd[ev.arg].pid = 0 /\ mainloop = "run"


\* ---------------------------------------------------------------- backoff rule
\* old >> d for a count d that is taken as it is: every bit is shifted out
\* when d is INT_BITS - 1 or more
ShiftOut(x, d) == IF d >= INT_BITS - 1 THEN 0 ELSE x \div (2 ^ d)

\* the backoff the rule gives for the old backoff and the time since the last
\* start.  A command that was never started has last_start_time 0 and the time
\* since then is the time since the epoch: more than INT_BITS seconds.
RuleBackoff(old, last_start_time, t) ==
    IF last_start_time = 0 THEN Max(MIN_RESPAWN_DELAY_MS, 0)
    ELSE LET ms == (t - last_start_time) * 1000
         IN IF ms < MAX_RESPAWN_DELAY_MS
            THEN Min(MAX_RESPAWN_DELAY_MS, old * RESPAWN_BACKOFF_RATE)
            ELSE Max(MIN_RESPAWN_DELAY_MS, ShiftOut(old, ms \div MAX_RESPAWN_DELAY_MS))

\* C33: every start attempt sets respawn_backoff to what the rule gives for
\* the true time since the last start, and last_start_time to the time of
\* the attempt
C33_BackoffRule ==
    [][\A c \in ev'.attempts :
          /\ mi'[c].respawn_backoff =
                RuleBackoff(mi[c].respawn_backoff, mi[c].last_start_time, now)
          /\ mi'[c].last_start_time = now]_vars


\* ---------------------------------------------------------------- kill
\* the processes that descend from pid: those whose parent is pid or descends
\* from it
RECURSIVE DescendFrom(_, _)
DescendFrom(ps, S) ==
    LET more == {p \in DescPids : ps[p].alive /\ ps[p].ppid \in S} \ S
    IN IF more = {} THEN S ELSE DescendFrom(ps, S \cup more)

Descendants(ps, pid) == DescendFrom(ps, {pid}) \ {pid}

\* C34: a handler sends no signal to a command without a pid and leaves its
\* descendants_to_kill as it is; a signal it sends to the child of a command
\* is also sent to every process that descends from the child, and each of
\* them is then in descendants_to_kill
C34_KillReachesDescendants ==
    [][\A c \in pm_commands :
          /\ (cmd[c].pid = 0 /\ c \notin ev'.forked) =>
                /\ SentTo(ev', c) = {}
                /\ cmd'[c].descendants_to_kill_ = cmd[c].descendants_to_kill_
          /\ \A signum \in SignalsTo(ev', c) :
                \A p \in Descendants(procs, PidOf(c)) :
                   /\ <<p, signum>> \in ev'.sent_desc
                   /\ p \in cmd'[c].descendants_to_kill_]_vars


\* ---------------------------------------------------------------- dangling callbacks
\* the deputy went on after it read a freed record, and its main loop
\* dispatches a respawn source that is still pending
RespawnFiresAfterUse == RespawnFiresIn({"undefined"}, MaxStarts)

NextDangling ==
    \/ HandleOrders
    \/ RespawnFires
    \/ HandleSignal
    \/ ChildExits
    \/ RespawnFiresAfterUse

SpecDangling == Init /\ [][NextDangling]_vars

\* C35: no respawn source and no output watch is invoked for a record that
\* was destroyed
C35_NoDanglingCallback ==
    [][ev'.kind \in {"respawn", "output"} => ev'.arg \notin freed]_vars


\* ---------------------------------------------------------------- one child, one timer
\* the respawn sources of command c that are pending
PendingSources(t, c) == (IF t[c].cur THEN 1 ELSE 0) + t[c].old

\* C36: no handler attempts to start a command that has a pid, no respawn
\* source fires for a command that has a pid, and no command has more than
\* one respawn source pending
C36_OneChildOneTimer ==
    [][/\ \A c \in ev'.attempts : cmd[c].pid = 0
       /\ ev'.kind = "respawn" => cmd[ev'.arg].pid = 0
       /\ \A c \in SheriffIds : PendingSources(timers', c) <= 1]_vars


\* ---------------------------------------------------------------- stop liveness
\* orders that demand that command 1 be stopped: by force_quit, or by leaving
\* it out
StopOrders ==
    {OrdersMsg(TRUE, 0, <<Entry(1, RunK, TRUE, ar)>>) : ar \in BOOLEAN}
    \cup {OrdersMsg(TRUE, 0, <<>>)}

HandleOrdersStop == HandleOrdersFrom(StopOrders, MaxStarts, {})

\* a child that ignores its stop signal ends when it is sent SIGKILL
ChildDiesOfKill ==
    /\ mainloop = "run"
    /\ \E c \in SheriffIds :
         /\ child[c] = "alive" /\ SIGKILL \in delivered[c]
         /\ child' = [child EXCEPT ![c] = "zombie"]
         /\ wstatus' = [wstatus EXCEPT ![c] = SIGKILL]
         /\ delivered' = [delivered EXCEPT ![c] = {}]
         /\ procs' = Reparent(procs, PidOf(c))
    /\ Raise(SIGCHLD)
    /\ ev' = Log("exit", 0)
    /\ UNCHANGED <<commands_, mi, freed, pm_commands, cmd, timers, exiting,
                   quit_timers, mainloop, fd_open, pty, prep, net, loop, now, nstarts>>

\* time passes; the clock stops at MaxNow unless a child that was sent its
\* stop signal still has time left
TickStop ==
    /\ mainloop = "run"
    /\ \/ now < MaxNow
       \/ \E c \in SheriffIds :
             /\ cmd[c].pid # 0 /\ mi[c].first_kill_time # 0
             /\ now <= mi[c].first_kill_time + mi[c].stop_time_allowed
    /\ now' = now + 1
    /\ ev' = Log("tick", 0)
    /\ UNCHANGED <<commands_, mi, freed, pm_commands, cmd, timers, exiting,
                   quit_timers, mainloop, child, wstatus, delivered, fd_open, pty, prep,
                   procs, net, loop, sigpipe, nstarts>>

NextStop ==
    \/ HandleOrdersStop
    \/ HandleSignal
    \/ ChildDiesOfKill
    \/ ChildExits
    \/ TickStop

\* the sheriff keeps sending its orders, time passes, the main loop
\* dispatches a pending signal, a child that was sent SIGKILL ends
SpecStop ==
    /\ InitRun
    /\ [][NextStop]_vars
    /\ WF_vars(HandleOrdersStop)
    /\ WF_vars(HandleSignal)
    /\ WF_vars(ChildDiesOfKill)
    /\ WF_vars(TickStop)

ForeignChild == NoCmd

\* the orders in which waitpid can return the exited children when a child
\* that no command started has exited as well
ForeignOracles ==
    {Oracle(u, 0, FALSE, {}, JunkFd, ord) :
        u \in UbChoices,
        ord \in {<<ForeignChild, 1, 2>>, <<1, ForeignChild, 2>>, <<2, ForeignChild, 1>>,
                 <<1, 2, ForeignChild>>, <<2, 1, ForeignChild>>}}

\* a child that no command started exits
ForeignChildExits ==
    /\ mainloop = "run"
    /\ Raise(SIGCHLD)
    /\ ev' = Log("foreign_exit", 0)
    /\ UNCHANGED <<commands_, mi, freed, pm_commands, cmd, timers, exiting,
                   quit_timers, mainloop, child, wstatus, delivered, fd_open, pty, prep,
                   procs, net, loop, now, nstarts>>

\* SIGCHLD is dispatched when a child that no command started has exited too:
\* the signal is pending once, however many children exited
HandleSignalForeign ==
    /\ mainloop = "run"
    /\ sigpipe # <<>> /\ Head(sigpipe) = SIGCHLD
    /\ \E I \in ForeignOracles :
         \E D \in {glib_handle_signal(Begin("signal", Head(sigpipe)), Head(sigpipe), I)} :
            Bounded(D, MaxStarts) /\ Apply(D)
    /\ sigpipe' = Tail(sigpipe)
    /\ UNCHANGED <<now, net, loop>>

NextDrain ==
    \/ HandleOrdersQuit
    \/ ChildExits
    \/ ForeignChildExits
    \/ HandleSignal
    \/ HandleSignalForeign

SpecDrain == InitQuit /\ [][NextDrain]_vars

\* the deputy owns the child of c: a record of the process manager holds its pid
Owned(c) == c \in pm_commands /\ cmd[c].pid # 0 /\ cmd[c].pid = PidOf(c)

\* C38: when the handling of SIGCHLD is finished, every owned child that had
\* exited before it began is reaped (pid 0, exit status stored), its output fd
\* is closed, and the respawn of a command with auto_respawn is scheduled
C38_AllExitedReaped ==
    [][ev'.kind = "signal" /\ ev'.arg = SIGCHLD /\ mainloop' = "run" =>
         \A c \in SheriffIds :
            (child[c] = "zombie" /\ Owned(c)) =>
               /\ c \in ev'.reaped /\ child'[c] = "none"
               /\ cmd'[c].pid = 0 /\ cmd'[c].exit_status = wstatus[c]
               /\ ~fd_open'[c]
               /\ (mi[c].auto_respawn /\ ~mi[c].should_be_stopped) => timers'[c].cur]_vars


\* ---------------------------------------------------------------- timer bookkeeping
\* C39: between callbacks every live timer of the loop is in exactly one of
\* active_timers_ and inactive_timers_, and its active_ flag says which
C39_TimerBookkeeping ==
    ~loop.crashed =>
       \A tm \in TimerIds :
          loop.timer[tm].exists =>
             /\ (tm \in loop.active_timers_) # (tm \in loop.inactive_timers_)
             /\ loop.timer[tm].active_ <=> tm \in loop.active_timers_


\* ---------------------------------------------------------------- armed after Start
\* C40: a timer for which Start() returned in the iteration, and which was
\* neither stopped nor destroyed after that, is armed when the iteration
\* ends: it is in active_timers_ with its active_ flag set, so that its
\* callback is invoked once its deadline has passed
C40_ArmedAfterStart ==
    (~loop.quit_ /\ ~loop.crashed) =>
       \A tm \in loop.started :
          loop.timer[tm].exists =>
             loop.timer[tm].active_ /\ tm \in loop.active_timers_

====
